---- MODULE Spec2Model ----
(***************************************************************************)
(* Conjugate-gradient minimisation drivers, their numeric kernels and the  *)
(* Controller of rozinalexandr/Conjugate-Gradient-Method.                  *)
(*                                                                         *)
(* Numbers.  The program computes with sympy numbers and numpy floats.     *)
(* The model computes with exact rationals <<n, d>> in lowest terms        *)
(* (d > 0).  Two further values exist:                                     *)
(*   NaN   = <<0, 0>>  sympy's nan and zoo: the result of a division by    *)
(*                     zero; every arithmetic operation on it yields it    *)
(*                     again and every comparison with it raises TypeError;*)
(*   Unrep = <<1, 0>>  a finite value whose numerator or denominator       *)
(*                     exceeds MaxMag.  No reachable state holds it: an    *)
(*                     action whose result would hold it is not taken.     *)
(* Square roots are never taken: a comparison of norms is decided on the   *)
(* squares, exactly.                                                       *)
(***************************************************************************)
EXTENDS Integers, Sequences, FiniteSets, TLC

\* ------------------------------------------------------------------ bounds

\* Largest numerator / denominator of a modelled rational.
MaxMag == 20000

\* Points visited by a run lie on the integer lattice -MaxCoord..MaxCoord.
MaxCoord == 2

\* iteration_threshold is drawn from 1..MaxThreshold.
MaxThreshold == 2

\* The halving count up to which the specified doubling search is evaluated.
MaxHalvings == 3

\* iteration_number of a call of get_beta_k is drawn from 0..MaxIteration.
MaxIteration == 4

\* the largest number of methods a plot is asked to show
MaxMethods == 6

\* ----------------------------------------------------------------- numbers

NaN == <<0, 0>>

Unrep == <<1, 0>>

Abs(n) == IF n < 0 THEN -n ELSE n

RECURSIVE GCD(_, _)
GCD(a, b) == IF b = 0 THEN a ELSE GCD(b, a % b)

IsNaN(a) == a = NaN

IsUnrep(a) == a = Unrep

IsFinite(a) == a[2] > 0

\* n/d in lowest terms with a positive denominator (d # 0).
Norm(n, d) ==
    IF d = 1 THEN (IF n > MaxMag \/ -n > MaxMag THEN Unrep ELSE <<n, 1>>)
    ELSE LET g == GCD(Abs(n), Abs(d))
             nn == IF d < 0 THEN -(n \div g) ELSE n \div g
             dd == Abs(d) \div g
         IN  IF Abs(nn) > MaxMag \/ dd > MaxMag THEN Unrep ELSE <<nn, dd>>

Num(n) == <<n, 1>>

\* The shape of every binary operation: nan wins, then the unrepresentable.
Lift(a, b, v) ==
    IF IsNaN(a) \/ IsNaN(b) THEN NaN
    ELSE IF IsUnrep(a) \/ IsUnrep(b) THEN Unrep
    ELSE v

RAdd(a, b) == Lift(a, b, Norm(a[1] * b[2] + b[1] * a[2], a[2] * b[2]))

RSub(a, b) == Lift(a, b, Norm(a[1] * b[2] - b[1] * a[2], a[2] * b[2]))

RMul(a, b) == Lift(a, b, Norm(a[1] * b[1], a[2] * b[2]))

\* sympy: x / 0 is zoo and 0 / 0 is nan; neither raises.
RDiv(a, b) ==
    IF IsNaN(a) \/ IsNaN(b) THEN NaN
    ELSE IF IsUnrep(a) \/ IsUnrep(b) THEN Unrep
    ELSE IF b[1] = 0 THEN NaN
    ELSE Norm(a[1] * b[2], a[2] * b[1])

RNeg(a) == IF IsFinite(a) THEN <<-a[1], a[2]>> ELSE a

RAbs(a) == IF IsFinite(a) THEN <<Abs(a[1]), a[2]>> ELSE a

\* a < b and a <= b for finite a, b.
RLess(a, b) == a[1] * b[2] < b[1] * a[2]

RLeq(a, b) == a[1] * b[2] <= b[1] * a[2]

\* ----------------------------------------------------------------- vectors

\* A numpy array: the function over 1..n as a tuple.
Array(f) == f \o << >>

RECURSIVE SumSeq(_)
SumSeq(s) == IF s = << >> THEN Num(0) ELSE RAdd(s[1], SumSeq(Tail(s)))

Dot(u, v) == SumSeq(Array([i \in 1..Len(u) |-> RMul(u[i], v[i])]))

VecAdd(u, v) == Array([i \in 1..Len(u) |-> RAdd(u[i], v[i])])

VecSub(u, v) == Array([i \in 1..Len(u) |-> RSub(u[i], v[i])])

VecScale(u, c) == Array([i \in 1..Len(u) |-> RMul(u[i], c)])

MatVec(m, v) == Array([i \in 1..Len(m) |-> Dot(m[i], v)])

HasNaN(v) == \E i \in 1..Len(v) : IsNaN(v[i])

HasUnrep(v) == \E i \in 1..Len(v) : IsUnrep(v[i])

MatHasUnrep(m) == \E i \in 1..Len(m) : HasUnrep(m[i])

MatHasNaN(m) == \E i \in 1..Len(m) : HasNaN(m[i])

\* numpy.eye(n)
Eye(n) ==
    Array([i \in 1..n |-> Array([j \in 1..n |-> IF i = j THEN Num(1) ELSE Num(0)])])

IntVec(v) == Array([i \in 1..Len(v) |-> Num(v[i])])

\* --------------------------------------------------------------- objective
\* An objective is [a |-> <<a1..aM>>, b |-> <<b1..bM>>]: the expression
\* a1*x_1**2 + b1*x_1 + ... + aM*x_M**2 + bM*x_M over the sorted free symbols
\* x_1 .. x_M.  Substituting a nan for a symbol yields nan.

\* function.subs(symbol_value_mapping), the mapping built for `dimension` symbols
get_function_value_at_k_point(function, x_current, dimension) ==
    SumSeq(Array([i \in 1..dimension |->
              RAdd(RMul(Num(function.a[i]), RMul(x_current[i], x_current[i])),
                   RMul(Num(function.b[i]), x_current[i]))]))

\* sympy.diff(function, free_symbols[i]).subs(mapping)
get_derivative(function, i, x) ==
    RAdd(RMul(Num(2 * function.a[i]), x[i]), Num(function.b[i]))

\* -sympy.diff(function, free_symbols[i]).subs(mapping)
get_anti_derivative(function, i, x) == RNeg(get_derivative(function, i, x))

Gradient(function, x, dimension) ==
    Array([i \in 1..dimension |-> get_derivative(function, i, x)])

AntiGradient(function, x, dimension) ==
    Array([i \in 1..dimension |-> get_anti_derivative(function, i, x)])

\* get_norm_of_vector(vector) ** 2: the sum of abs(element) ** 2
get_norm_of_vector_squared(vector) ==
    SumSeq(Array([i \in 1..Len(vector) |->
                    RMul(RAbs(vector[i]), RAbs(vector[i]))]))

\* ---------------------------------------------------------------- accuracy

RECURSIVE Pow10(_)
Pow10(k) == IF k = 0 THEN 1 ELSE 10 * Pow10(k - 1)

\* self.accuracy = 10 ** accuracy, for an exponent accuracy <= 0
Accuracy(exponent) == <<1, Pow10(-exponent)>>

\* The r with r ** 3 = n (n a perfect cube).
CubeRoot(n) == CHOOSE r \in 0..100 : r * r * r = n

IsCube(n) == \E r \in 0..100 : r * r * r = n

\* ------------------------------------------------------- stopping criteria
\* A test yields "True" or "False", or raises: sympy raises TypeError on a
\* comparison that involves nan.

PyTrue == "True"

PyFalse == "False"

TypeError == "TypeError"

PyBool(b) == IF b THEN PyTrue ELSE PyFalse

\* the change in either direction is held against the bound:
\* abs(previous - current) < accuracy * (1 + abs(current))
ChangeBelowBound(previous, current, accuracy) ==
    LET diff == RAbs(RSub(previous, current))
        one_plus == RAdd(Num(1), RAbs(current))
    IN  diff[1] * accuracy[2] * one_plus[2] < accuracy[1] * one_plus[1] * diff[2]

\* the bound itself passes: previous - current <= accuracy * (1 + abs(current))
DecreaseAtMostBound(previous, current, accuracy) ==
    LET diff == RSub(previous, current)
        one_plus == RAdd(Num(1), RAbs(current))
    IN  diff[1] * accuracy[2] * one_plus[2] <= accuracy[1] * one_plus[1] * diff[2]

\* previous - current < accuracy * (1 + abs(current))
DecreaseBelowBound(previous, current, accuracy) ==
    LET diff == RSub(previous, current)
        one_plus == RAdd(Num(1), RAbs(current))
    IN  diff[1] * accuracy[2] * one_plus[2] < accuracy[1] * one_plus[1] * diff[2]

\* a bound relative to the norm alone, without the 1 +:
\* sqrt(step_sq) < accuracy ** 0.5 * sqrt(norm_sq)
StepBelowRelativeBound(step_sq, norm_sq, accuracy) ==
    step_sq[1] * accuracy[2] * norm_sq[2] < accuracy[1] * norm_sq[1] * step_sq[2]

\* sqrt(step_sq) < accuracy ** 0.5 * (1 + sqrt(norm_sq)), decided on the squares:
\* with L = step_sq / accuracy - (1 + norm_sq) it is  L < 2 * sqrt(norm_sq).
StepBelowBound(step_sq, norm_sq, accuracy) ==
    LET ln == accuracy[2] * step_sq[1] * norm_sq[2]
                - accuracy[1] * (norm_sq[2] + norm_sq[1]) * step_sq[2]
        ld == accuracy[1] * step_sq[2] * norm_sq[2]
        big == IF norm_sq[1] > norm_sq[2] THEN norm_sq[1] ELSE norm_sq[2]
    IN  IF ln < 0 THEN TRUE
        ELSE IF ln * norm_sq[2] >= 2 * big * ld THEN FALSE
        ELSE ln * ln * norm_sq[2] < 4 * norm_sq[1] * ld * ld

\* sqrt(grad_sq) <= accuracy ** (1 / 3) * (1 + abs(value)), decided on the squares
GradientBelowBound(grad_sq, value, accuracy) ==
    LET cp == CubeRoot(accuracy[1])
        cq == CubeRoot(accuracy[2])
        one_plus == RAdd(Num(1), RAbs(value))
    IN  grad_sq[1] * cq * cq * one_plus[2] * one_plus[2]
          <= cp * cp * one_plus[1] * one_plus[1] * grad_sq[2]

check_first_stopping_criteria(function, x_current, x_previous, dimension, accuracy) ==
    LET previous_function_solution ==
            get_function_value_at_k_point(function, x_previous, dimension)
        current_function_solution ==
            get_function_value_at_k_point(function, x_current, dimension)
    IN  IF IsNaN(previous_function_solution) \/ IsNaN(current_function_solution)
        THEN TypeError
        ELSE PyBool(DecreaseBelowBound(previous_function_solution,
                                       current_function_solution, accuracy))

check_second_stopping_criteria(x_current, x_previous, accuracy) ==
    LET step_sq == get_norm_of_vector_squared(VecSub(x_previous, x_current))
        norm_sq == get_norm_of_vector_squared(x_current)
    IN  IF IsNaN(step_sq) \/ IsNaN(norm_sq) THEN TypeError
        ELSE PyBool(StepBelowBound(step_sq, norm_sq, accuracy))

check_third_stopping_criteria(function, x_current, dimension, accuracy) ==
    LET grad_sq == get_norm_of_vector_squared(Gradient(function, x_current, dimension))
        current_function_solution ==
            get_function_value_at_k_point(function, x_current, dimension)
    IN  IF IsNaN(grad_sq) \/ IsNaN(current_function_solution) THEN TypeError
        ELSE PyBool(GradientBelowBound(grad_sq, current_function_solution, accuracy))

\* any() in the place of all()
RECURSIVE PyAny(_)
PyAny(list) ==
    IF list = << >> THEN PyFalse
    ELSE IF Head(list) = PyTrue THEN PyTrue
    ELSE PyAny(Tail(list))

\* Python's all() over a list of booleans
RECURSIVE PyAll(_)
PyAll(list) ==
    IF list = << >> THEN PyTrue
    ELSE IF Head(list) = PyFalse THEN PyFalse
    ELSE PyAll(Tail(list))

\* all([first, second, third]): the list is built before all() runs, so a test
\* that raises makes the call raise whatever the other tests yield.
check_all_criteria(function, x_current, x_previous, dimension, accuracy) ==
    LET list == << check_first_stopping_criteria(function, x_current, x_previous,
                                                 dimension, accuracy),
                   check_second_stopping_criteria(x_current, x_previous, accuracy),
                   check_third_stopping_criteria(function, x_current, dimension,
                                                 accuracy) >>
    IN  IF \E i \in 1..3 : list[i] = TypeError THEN TypeError ELSE PyAll(list)

\* StoppingCriteria.first_stopping_criteria (self._accuracy is the tolerance itself)
first_stopping_criteria(function, x_current, x_previous, dimension, accuracy) ==
    LET previous_function_solution ==
            get_function_value_at_k_point(function, x_previous, dimension)
        current_function_solution ==
            get_function_value_at_k_point(function, x_current, dimension)
    IN  IF IsNaN(previous_function_solution) \/ IsNaN(current_function_solution)
        THEN TypeError
        ELSE PyBool(DecreaseBelowBound(previous_function_solution,
                                       current_function_solution, accuracy))

second_stopping_criteria(x_current, x_previous, accuracy) ==
    LET step_sq == get_norm_of_vector_squared(VecSub(x_previous, x_current))
        norm_sq == get_norm_of_vector_squared(x_current)
    IN  IF IsNaN(step_sq) \/ IsNaN(norm_sq) THEN TypeError
        ELSE PyBool(StepBelowBound(step_sq, norm_sq, accuracy))

third_stopping_criteria(function, x_current, dimension, accuracy) ==
    LET grad_sq == get_norm_of_vector_squared(Gradient(function, x_current, dimension))
        current_function_solution ==
            get_function_value_at_k_point(function, x_current, dimension)
    IN  IF IsNaN(grad_sq) \/ IsNaN(current_function_solution) THEN TypeError
        ELSE PyBool(GradientBelowBound(grad_sq, current_function_solution, accuracy))

\* first(...) and second(...) and third(...): Python's `and` stops at the first
\* False and never evaluates the tests after it.
TwoStepCriteria(function, x_current, x_previous, dimension, accuracy) ==
    LET first == first_stopping_criteria(function, x_current, x_previous,
                                         dimension, accuracy)
        second == second_stopping_criteria(x_current, x_previous, accuracy)
        third == third_stopping_criteria(function, x_current, dimension, accuracy)
    IN  IF first # PyTrue THEN first
        ELSE IF second # PyTrue THEN second
        ELSE third

\* ------------------------------------------------- direction and curvature

\* x_current + s_current * alpha_current
get_x_next(x_current, alpha_current, s_current) ==
    VecAdd(x_current, VecScale(s_current, alpha_current))

\* a reset at the start of the run only: 0 for iteration_number 0, else 1
BetaResetAtStartOnly(function, x_current, x_previous, iteration_number, dimension) ==
    IF iteration_number = 0 THEN Num(0) ELSE Num(1)

\* 0 on every iteration_number that is a multiple of dimension, else the ratio
\* of the squared gradient norms at x_current and x_previous
get_beta_k(function, x_current, x_previous, iteration_number, dimension) ==
    IF iteration_number % dimension = 0 THEN Num(0)
    ELSE RDiv(get_norm_of_vector_squared(Gradient(function, x_current, dimension)),
              get_norm_of_vector_squared(Gradient(function, x_previous, dimension)))

get_delta_x(x_next, x_current) == VecSub(x_next, x_current)

get_delta_y(function, x_next, x_current, dimension) ==
    VecSub(Gradient(function, x_next, dimension),
           Gradient(function, x_current, dimension))

\* numpy.dot of two one-dimensional arrays is their inner product (a scalar);
\* .T leaves a one-dimensional array as it is.  numpy.add(matrix, scalar) adds
\* the scalar to every entry.  No denominator is tested.
get_h_k(function, x_next, x_current, dimension, h_previous) ==
    LET delta_x == get_delta_x(x_next, x_current)
        delta_y == get_delta_y(function, x_next, x_current, dimension)
        bracketed_expression == VecSub(delta_x, MatVec(h_previous, delta_y))
        expression_right_side ==
            RDiv(Dot(bracketed_expression, bracketed_expression),
                 Dot(bracketed_expression, delta_y))
    IN  Array([i \in 1..dimension |->
           Array([j \in 1..dimension |->
                    RAdd(h_previous[i][j], expression_right_side)])])

\* the gradient itself, not its negative, as the first direction
AscentAtStart(function, x_current, beta_current, s_previous, h_current, dimension, iteration) ==
    IF iteration = 0 THEN Gradient(function, x_current, dimension)
    ELSE VecAdd(MatVec(h_current, AntiGradient(function, x_current, dimension)),
                VecScale(s_previous, beta_current))

\* ConjugateGradientsSecondModification.get_s_k_second_modification
get_s_k_second_modification(function, x_current, beta_current, s_previous, h_current, dimension, iteration) ==
    IF iteration = 0 THEN AntiGradient(function, x_current, dimension)
    ELSE VecAdd(MatVec(h_current, AntiGradient(function, x_current, dimension)),
                VecScale(s_previous, beta_current))

\* TwoStepMinimization._get_s_0
TwoStep_get_s_0(function, x_0, dimension) == AntiGradient(function, x_0, dimension)

\* TwoStepMinimization._get_s_k
TwoStep_get_s_k(function, x_current, beta_current, s_previous, dimension) ==
    VecAdd(AntiGradient(function, x_current, dimension),
           VecScale(s_previous, beta_current))

\* TwoStepMinimization._get_beta_k
TwoStep_get_beta_k(function, x_current, x_previous, iteration_number, dimension) ==
    IF iteration_number % dimension = 0 THEN Num(0)
    ELSE RDiv(get_norm_of_vector_squared(Gradient(function, x_current, dimension)),
              get_norm_of_vector_squared(Gradient(function, x_previous, dimension)))

\* TwoStepMinimization._get_h_k
TwoStep_get_h_k(function, x_next, x_current, dimension, h_previous) ==
    LET delta_x == VecSub(x_next, x_current)
        delta_y == VecSub(Gradient(function, x_next, dimension),
                          Gradient(function, x_current, dimension))
        bracketed_expression == VecSub(delta_x, MatVec(h_previous, delta_y))
        expression_right_side ==
            RDiv(Dot(bracketed_expression, bracketed_expression),
                 Dot(bracketed_expression, delta_y))
    IN  Array([i \in 1..dimension |->
           Array([j \in 1..dimension |->
                    RAdd(h_previous[i][j], expression_right_side)])])

\* TwoStepMinimization._get_s_k_second_modification
TwoStep_get_s_k_second_modification(function, x_current, beta_current, s_previous, h_current, dimension) ==
    VecAdd(MatVec(h_current, AntiGradient(function, x_current, dimension)),
           VecScale(s_previous, beta_current))

\* TwoStepMinimization._get_s_k_first_modification
TwoStep_get_s_k_first_modification(function, x_current, beta_current, s_previous, h_previous, dimension) ==
    VecAdd(AntiGradient(function, x_current, dimension),
           VecScale(MatVec(h_previous, s_previous), beta_current))

\* s_0 of ConjugateGradients.run_method: the steepest-descent direction at x_0
get_s_0(function, x_0, dimension) == AntiGradient(function, x_0, dimension)

\* ------------------------------------------------------------- line search

SingleFactor == "get_alpha_k_single_factor_minimization"

Doubling == "get_alpha_k_doubling_method"

Lattice == -MaxCoord..MaxCoord

OnLattice(x) ==
    \A i \in 1..Len(x) : IsNaN(x[i]) \/ (x[i][2] = 1 /\ x[i][1] \in Lattice)

\* scipy's minimize_scalar is outside the program: it may return any step.  The
\* steps explored are 0 and those that bring some coordinate onto a lattice value.
AlphaChoices(x, s) ==
    IF HasNaN(x) \/ HasNaN(s) THEN {Num(0)}
    ELSE {Num(0)} \cup
         { a \in { RDiv(RSub(Num(p), x[i]), s[i]) :
                     p \in Lattice, i \in {j \in 1..Len(s) : s[j][1] # 0} } :
             IsFinite(a) }

\* get_alpha_k_doubling_method() takes no parameter: the drivers call it with five
\* keyword arguments, which raises TypeError before its body runs.
get_alpha_k_doubling_method(function, x_current, s_current, dimension) == TypeError

\* ------------------------------------------------------ drawing/plotter.py

available_styles == << "-", "--", "-.", ":" >>

\* list(islice(cycle(available_styles), 0, methods_number + 1))
get_styles(methods_number) ==
    Array([i \in 1..(methods_number + 1) |->
             available_styles[((i - 1) % Len(available_styles)) + 1]])

\* =================================================================== state

VARIABLES
    \* constructor arguments of a minimisation method
    function, x_0, min_point, accuracy, iteration_threshold,
    alpha_k_calculating_method,
    \* the running method and the locals of its run
    method, pc, iteration_counter, list_of_function_value_at_k_point,
    x_current, x_previous, s_previous, h_current, h_previous,
    function_value_at_known_min_point,
    \* what the run printed, raised and returned
    messages, results, exception, returned,
    \* Controller: its settings and the position of Controller.run
    settings, ctl_pc, ctl_queue, instances_created, run_method_calls,
    \* one call of a pure function: its arguments and its result
    call, ret,
    \* two runs on the same function and x_0, side by side
    twin

inputs == <<function, x_0, min_point, accuracy, iteration_threshold,
            alpha_k_calculating_method, method>>

locals == <<iteration_counter, list_of_function_value_at_k_point, x_current,
            x_previous, s_previous, h_current, h_previous, function_value_at_known_min_point>>

outputs == <<messages, results, exception, returned>>

ctl == <<settings, ctl_pc, ctl_queue, instances_created, run_method_calls>>

fn == <<call, ret>>

vars == <<inputs, pc, locals, outputs, ctl, fn, twin>>

\* self.dimension = len(x_0)
dimension == Len(x_0)

CG == "ConjugateGradients"

CG2 == "ConjugateGradientsSecondModification"

TSBase == "TwoStepMinimization.run_base_minimizer"

TSFirst == "TwoStepMinimization.run_first_modification_minimizer"

TSSecond == "TwoStepMinimization.run_second_modification_minimizer"

TwoStepMethods == {TSBase, TSFirst, TSSecond}

NoException == [type |-> "", origin |-> ""]

Last(list) == list[Len(list)]

\* the value of a return statement: the tuple (first, second) of
\* ConjugateGradientsSecondModification.run_method, or a list alone
PyTuple(first, second) == [type |-> "tuple", value |-> << first, second >>]

PyList(items) == [type |-> "list", value |-> items]

F(x) == get_function_value_at_k_point(function, x, dimension)

\* the record print_result_info prints (the elapsed time is left out)
ResultRecord(reached_point, iteration_number, reached_min_func_value, started_func_value, known_min_function_value) ==
    [method_name |-> method, min_point |-> reached_point, target |-> min_point,
     iteration_number |-> iteration_number,
     reached_min_func_value |-> reached_min_func_value,
     started_func_value |-> started_func_value,
     known_min_function_value |-> known_min_function_value]

\* the record TwoStepMinimization._print_result_info prints
TwoStepResultRecord(method_name, x, number_of_iterations) ==
    [method_name |-> method_name, min_point |-> x, target |-> << >>,
     iteration_number |-> number_of_iterations + 1,
     reached_min_func_value |-> F(x),
     started_func_value |-> F(x_0),
     known_min_function_value |-> << >>]

\* ------------------------------------------------------------ the settings

Objectives ==
    { [a |-> <<1>>, b |-> <<0>>],
      [a |-> <<0>>, b |-> <<1>>],
      [a |-> <<1, 1>>, b |-> <<0, 0>>],
      [a |-> <<1, 2>>, b |-> <<-2, 0>>] }

AccuracyExponents == {0, -3, -6}

StartCoordinates == {-1, 0, 1}

StartPoints(n) == { IntVec(v) : v \in [1..n -> StartCoordinates] }

ZeroPoint(n) == Array([i \in 1..n |-> Num(0)])

RunIdle ==
    /\ pc = "init"
    /\ iteration_counter = 0
    /\ list_of_function_value_at_k_point = << >>
    /\ x_current = << >>
    /\ x_previous = << >>
    /\ s_previous = << >>
    /\ h_current = << >>
    /\ h_previous = << >>
    /\ function_value_at_known_min_point = << >>
    /\ messages = << >>
    /\ results = << >>
    /\ exception = NoException
    /\ returned = << >>

NoController ==
    /\ settings = [alpha |-> << >>, methods |-> << >>, plot |-> FALSE]
    /\ ctl_pc = "none"
    /\ ctl_queue = << >>
    /\ instances_created = 0
    /\ run_method_calls = 0

NoCall ==
    /\ call = [fn |-> "none"]
    /\ ret = [status |-> "none"]

NoTwin == twin = << >>

\* A method object constructed on its own and about to run.
Init ==
    /\ function \in Objectives
    /\ x_0 \in StartPoints(Len(function.a))
    /\ min_point = ZeroPoint(Len(function.a))
    /\ accuracy \in { Accuracy(e) : e \in AccuracyExponents }
    /\ method \in {CG, CG2} \cup TwoStepMethods
    \* TwoStepMinimization takes no iteration budget: its runs are set beside
    \* the smallest positive one
    /\ iteration_threshold \in
         IF method \in TwoStepMethods THEN {1} ELSE 1..MaxThreshold
    /\ alpha_k_calculating_method \in
         IF method \in TwoStepMethods THEN {SingleFactor} ELSE {SingleFactor, Doubling}
    /\ RunIdle
    /\ NoController
    /\ NoCall
    /\ NoTwin

\* ------------------------------ ConjugateGradientsSecondModification.run_method

LineSearchError == [type |-> TypeError, origin |-> "alpha_k_calculating_method"]

CG2_Start ==
    /\ method = CG2 /\ pc = "init"
    /\ function_value_at_known_min_point' = F(min_point)
    /\ iteration_counter' = 0
    /\ list_of_function_value_at_k_point' = << F(x_0) >>
    /\ x_current' = x_0
    /\ x_previous' = << >>
    /\ s_previous' = << >>
    /\ h_current' = Eye(dimension)
    /\ h_previous' = h_previous
    /\ pc' = "loop"
    /\ UNCHANGED <<twin, inputs, outputs, ctl, fn>>

CG2_Threshold ==
    /\ method = CG2 /\ pc = "loop"
    /\ iteration_counter > iteration_threshold
    /\ messages' = Append(messages, "!!!!!!!!! THRESHOLD !!!!!!!!!")
    /\ results' = Append(results,
                         ResultRecord(x_current, iteration_counter,
                                      Last(list_of_function_value_at_k_point),
                                      list_of_function_value_at_k_point[1],
                                      function_value_at_known_min_point))
    /\ returned' = PyTuple(list_of_function_value_at_k_point,
                           function_value_at_known_min_point)
    /\ pc' = "returned"
    /\ UNCHANGED <<twin, inputs, locals, exception, ctl, fn>>

CG2_beta_current ==
    get_beta_k(function, x_current, x_previous, iteration_counter, dimension)

CG2_s_current ==
    get_s_k_second_modification(function, x_current, CG2_beta_current, s_previous,
                                h_current, dimension, iteration_counter)

\* the line search is called outside the try block: what it raises leaves run_method
CG2_LineSearchRaises ==
    /\ method = CG2 /\ pc = "loop"
    /\ ~(iteration_counter > iteration_threshold)
    /\ alpha_k_calculating_method = Doubling
    /\ get_alpha_k_doubling_method(function, x_current, CG2_s_current, dimension)
         = TypeError
    /\ exception' = LineSearchError
    /\ pc' = "raised"
    /\ UNCHANGED <<twin, inputs, locals, messages, results, returned, ctl, fn>>

CG2_CanStep ==
    /\ method = CG2 /\ pc = "loop"
    /\ ~(iteration_counter > iteration_threshold)
    /\ alpha_k_calculating_method = SingleFactor

\* (\E v \in {e} : ...) names the value of e.
CG2_Converged ==
    /\ CG2_CanStep
    /\ \E s_current \in {CG2_s_current} :
       \E alpha_current \in AlphaChoices(x_current, s_current) :
       \E x_next \in {get_x_next(x_current, alpha_current, s_current)} :
       \E list \in {Append(list_of_function_value_at_k_point, F(x_next))} :
         /\ ~HasUnrep(s_current)
         /\ OnLattice(x_next)
         /\ check_all_criteria(function, x_next, x_current, dimension, accuracy)
              = PyTrue
         /\ list_of_function_value_at_k_point' = list
         /\ iteration_counter' = iteration_counter + 1
         /\ results' = Append(results,
                              ResultRecord(x_next, iteration_counter + 1,
                                           Last(list), list[1],
                                           function_value_at_known_min_point))
         /\ returned' = PyTuple(list, function_value_at_known_min_point)
    /\ pc' = "returned"
    /\ UNCHANGED <<twin, inputs, x_current, x_previous, s_previous, h_current, h_previous,
                   function_value_at_known_min_point, messages, exception, ctl, fn>>

\* a pass that goes on without counting itself
CG2_AdvanceWithoutCounting ==
    /\ CG2_CanStep
    /\ \E s_current \in {CG2_s_current} :
       \E alpha_current \in AlphaChoices(x_current, s_current) :
       \E x_next \in {get_x_next(x_current, alpha_current, s_current)} :
         /\ ~HasUnrep(s_current)
         /\ OnLattice(x_next)
         /\ check_all_criteria(function, x_next, x_current, dimension, accuracy)
              = PyFalse
         /\ list_of_function_value_at_k_point' =
              Append(list_of_function_value_at_k_point, F(x_next))
         /\ iteration_counter' = iteration_counter
         /\ x_previous' = x_current
         /\ x_current' = x_next
         /\ s_previous' = s_current
         /\ \E h_next \in {get_h_k(function, x_next, x_current, dimension,
                                   h_current)} :
              /\ ~MatHasUnrep(h_next)
              /\ h_current' = h_next
              /\ h_previous' = h_previous
    /\ Len(list_of_function_value_at_k_point) <= MaxThreshold + 2
    /\ UNCHANGED <<twin, inputs, pc, function_value_at_known_min_point, outputs, ctl, fn>>

\* a pass that goes on and keeps only the latest value in the trace
CG2_AdvanceKeepingLatest ==
    /\ CG2_CanStep
    /\ \E s_current \in {CG2_s_current} :
       \E alpha_current \in AlphaChoices(x_current, s_current) :
       \E x_next \in {get_x_next(x_current, alpha_current, s_current)} :
         /\ ~HasUnrep(s_current)
         /\ OnLattice(x_next)
         /\ check_all_criteria(function, x_next, x_current, dimension, accuracy)
              = PyFalse
         /\ list_of_function_value_at_k_point' = << F(x_next) >>
         /\ iteration_counter' = iteration_counter + 1
         /\ x_previous' = x_current
         /\ x_current' = x_next
         /\ s_previous' = s_current
         /\ \E h_next \in {get_h_k(function, x_next, x_current, dimension,
                                   h_current)} :
              /\ ~MatHasUnrep(h_next)
              /\ h_current' = h_next
              /\ h_previous' = h_previous
    /\ UNCHANGED <<twin, inputs, pc, function_value_at_known_min_point, outputs, ctl, fn>>

CG2_Advance ==
    /\ CG2_CanStep
    /\ \E s_current \in {CG2_s_current} :
       \E alpha_current \in AlphaChoices(x_current, s_current) :
       \E x_next \in {get_x_next(x_current, alpha_current, s_current)} :
         /\ ~HasUnrep(s_current)
         /\ OnLattice(x_next)
         /\ check_all_criteria(function, x_next, x_current, dimension, accuracy)
              = PyFalse
         /\ list_of_function_value_at_k_point' =
              Append(list_of_function_value_at_k_point, F(x_next))
         /\ iteration_counter' = iteration_counter + 1
         /\ x_previous' = x_current
         /\ x_current' = x_next
         /\ s_previous' = s_current
         /\ \E h_next \in {get_h_k(function, x_next, x_current, dimension,
                                   h_current)} :
              /\ ~MatHasUnrep(h_next)
              /\ h_current' = h_next
              /\ h_previous' = h_previous
    /\ UNCHANGED <<twin, inputs, pc, function_value_at_known_min_point, outputs, ctl, fn>>

\* except TypeError: the comparison of a nan inside check_all_criteria
CG2_Entrapment ==
    /\ CG2_CanStep
    /\ \E s_current \in {CG2_s_current} :
       \E alpha_current \in AlphaChoices(x_current, s_current) :
       \E x_next \in {get_x_next(x_current, alpha_current, s_current)} :
       \E list \in {Append(list_of_function_value_at_k_point, F(x_next))} :
         /\ ~HasUnrep(s_current)
         /\ OnLattice(x_next)
         /\ check_all_criteria(function, x_next, x_current, dimension, accuracy)
              = TypeError
         /\ list_of_function_value_at_k_point' = list
         /\ iteration_counter' = iteration_counter + 1
         /\ messages' = Append(messages, "!!!!!!!!! ENTRAPMENT !!!!!!!!!")
         /\ results' = Append(results,
                              ResultRecord(x_current, iteration_counter + 1,
                                           Last(list), list[1],
                                           function_value_at_known_min_point))
         /\ returned' = PyTuple(list, function_value_at_known_min_point)
    /\ pc' = "returned"
    /\ UNCHANGED <<twin, inputs, x_current, x_previous, s_previous, h_current, h_previous,
                   function_value_at_known_min_point, exception, ctl, fn>>

CG2_Next ==
    \/ CG2_Start
    \/ CG2_Threshold
    \/ CG2_LineSearchRaises
    \/ CG2_Converged
    \/ CG2_Advance
    \/ CG2_Entrapment

\* --------------------------------------------- ConjugateGradients.run_method

\* get_s_k_base_modification has a required parameter `iteration`; run_method
\* calls it with six keyword arguments and no `iteration`, which raises TypeError
\* before the body of the function runs.
get_s_k_base_modification_without_iteration == TypeError

MissingArgumentError == [type |-> TypeError, origin |-> "get_s_k_base_modification"]

CG_LineSearchRaises ==
    /\ method = CG /\ pc = "init"
    /\ alpha_k_calculating_method = Doubling
    /\ get_alpha_k_doubling_method(function, x_0,
                                   get_s_0(function, x_0, dimension), dimension)
         = TypeError
    /\ iteration_counter' = 0
    /\ list_of_function_value_at_k_point' = << F(x_0) >>
    /\ exception' = LineSearchError
    /\ pc' = "raised"
    /\ UNCHANGED <<twin, inputs, x_current, x_previous, s_previous, h_current, h_previous,
                   function_value_at_known_min_point, messages, results,
                   returned, ctl, fn>>

\* the first step satisfies the criteria: "Done" is printed, no result record
CG_Done ==
    /\ method = CG /\ pc = "init"
    /\ alpha_k_calculating_method = SingleFactor
    /\ \E s_0 \in {get_s_0(function, x_0, dimension)} :
       \E alpha_0 \in AlphaChoices(x_0, s_0) :
       \E x_1 \in {get_x_next(x_0, alpha_0, s_0)} :
       \E list \in {<< F(x_0), F(x_1) >>} :
         /\ OnLattice(x_1)
         /\ check_all_criteria(function, x_1, x_0, dimension, accuracy) = PyTrue
         /\ list_of_function_value_at_k_point' = list
         /\ x_current' = x_1
         /\ returned' = PyList(list)
    /\ iteration_counter' = 0
    /\ messages' = Append(messages, "Done")
    /\ pc' = "returned"
    /\ UNCHANGED <<twin, inputs, x_previous, s_previous, h_current, h_previous,
                   function_value_at_known_min_point, results, exception, ctl, fn>>

CG_EnterLoop ==
    /\ method = CG /\ pc = "init"
    /\ alpha_k_calculating_method = SingleFactor
    /\ \E s_0 \in {get_s_0(function, x_0, dimension)} :
       \E alpha_0 \in AlphaChoices(x_0, s_0) :
       \E x_1 \in {get_x_next(x_0, alpha_0, s_0)} :
         /\ OnLattice(x_1)
         /\ check_all_criteria(function, x_1, x_0, dimension, accuracy) = PyFalse
         /\ list_of_function_value_at_k_point' = << F(x_0), F(x_1) >>
         /\ x_previous' = x_0
         /\ x_current' = x_1
         /\ s_previous' = s_0
    /\ iteration_counter' = 0
    /\ pc' = "loop"
    /\ UNCHANGED <<twin, inputs, h_current, h_previous, function_value_at_known_min_point,
                   outputs, ctl, fn>>

\* the first pass of the loop: the counter is incremented, beta_current is
\* computed, and the call of get_s_k_base_modification raises
CG_LoopIteration ==
    /\ method = CG /\ pc = "loop"
    /\ iteration_counter' = iteration_counter + 1
    /\ get_s_k_base_modification_without_iteration = TypeError
    /\ exception' = MissingArgumentError
    /\ pc' = "raised"
    /\ UNCHANGED <<twin, inputs, list_of_function_value_at_k_point, x_current,
                   x_previous, s_previous, h_current, h_previous,
                   function_value_at_known_min_point, messages, results,
                   returned, ctl, fn>>

CG_Next ==
    \/ CG_LineSearchRaises
    \/ CG_Done
    \/ CG_EnterLoop
    \/ CG_LoopIteration

\* ------------------------------------ TwoStepMinimization.run_base_minimizer

\* the first step satisfies the three tests
TS_Done ==
    /\ method = TSBase /\ pc = "init"
    /\ \E s_0 \in {TwoStep_get_s_0(function, x_0, dimension)} :
       \E alpha_0 \in AlphaChoices(x_0, s_0) :
       \E x_1 \in {get_x_next(x_0, alpha_0, s_0)} :
       \E list \in {<< F(x_0), F(x_1) >>} :
         /\ OnLattice(x_1)
         /\ TwoStepCriteria(function, x_1, x_0, dimension, accuracy) = PyTrue
         /\ list_of_function_value_at_k_point' = list
         /\ x_current' = x_1
         /\ results' = Append(results, TwoStepResultRecord("Base Minimization",
                                                           x_1, 0))
         /\ returned' = PyList(list)
    /\ iteration_counter' = 0
    /\ pc' = "returned"
    /\ UNCHANGED <<twin, inputs, x_previous, s_previous, h_current, h_previous,
                   function_value_at_known_min_point, messages, exception, ctl, fn>>

\* a first step that goes on into the loop whatever the three tests say
TS_EnterLoopRegardless ==
    /\ method = TSBase /\ pc = "init"
    /\ \E s_0 \in {TwoStep_get_s_0(function, x_0, dimension)} :
       \E alpha_0 \in AlphaChoices(x_0, s_0) :
       \E x_1 \in {get_x_next(x_0, alpha_0, s_0)} :
         /\ OnLattice(x_1)
         /\ TwoStepCriteria(function, x_1, x_0, dimension, accuracy) # TypeError
         /\ list_of_function_value_at_k_point' = << F(x_0), F(x_1) >>
         /\ x_previous' = x_0
         /\ x_current' = x_1
         /\ s_previous' = s_0
    /\ iteration_counter' = 0
    /\ pc' = "loop"
    /\ UNCHANGED <<twin, inputs, h_current, h_previous, function_value_at_known_min_point,
                   outputs, ctl, fn>>

TS_EnterLoop ==
    /\ method = TSBase /\ pc = "init"
    /\ \E s_0 \in {TwoStep_get_s_0(function, x_0, dimension)} :
       \E alpha_0 \in AlphaChoices(x_0, s_0) :
       \E x_1 \in {get_x_next(x_0, alpha_0, s_0)} :
         /\ OnLattice(x_1)
         /\ TwoStepCriteria(function, x_1, x_0, dimension, accuracy) = PyFalse
         /\ list_of_function_value_at_k_point' = << F(x_0), F(x_1) >>
         /\ x_previous' = x_0
         /\ x_current' = x_1
         /\ s_previous' = s_0
    /\ iteration_counter' = 0
    /\ pc' = "loop"
    /\ UNCHANGED <<twin, inputs, h_current, h_previous, function_value_at_known_min_point,
                   outputs, ctl, fn>>

TS_s_current ==
    TwoStep_get_s_k(function, x_current,
                    TwoStep_get_beta_k(function, x_current, x_previous,
                                       iteration_counter + 1, dimension),
                    s_previous, dimension)

\* The loop has no test of the counter: it is explored until the counter is
\* two past the budget the run is set beside.
TwoStepPassesExplored == iteration_threshold + 2

TS_CanStep ==
    /\ method = TSBase /\ pc = "loop"
    /\ iteration_counter < TwoStepPassesExplored

TS_Converged ==
    /\ TS_CanStep
    /\ \E s_current \in {TS_s_current} :
       \E alpha_current \in AlphaChoices(x_current, s_current) :
       \E x_next \in {get_x_next(x_current, alpha_current, s_current)} :
       \E list \in {Append(list_of_function_value_at_k_point, F(x_next))} :
         /\ ~HasUnrep(s_current)
         /\ OnLattice(x_next)
         /\ TwoStepCriteria(function, x_next, x_current, dimension, accuracy)
              = PyTrue
         /\ list_of_function_value_at_k_point' = list
         /\ results' = Append(results,
                              TwoStepResultRecord("Base Minimization", x_next,
                                                  iteration_counter + 1))
         /\ returned' = PyList(list)
    /\ iteration_counter' = iteration_counter + 1
    /\ pc' = "returned"
    /\ UNCHANGED <<twin, inputs, x_current, x_previous, s_previous, h_current, h_previous,
                   function_value_at_known_min_point, messages, exception, ctl, fn>>

TS_Advance ==
    /\ TS_CanStep
    /\ \E s_current \in {TS_s_current} :
       \E alpha_current \in AlphaChoices(x_current, s_current) :
       \E x_next \in {get_x_next(x_current, alpha_current, s_current)} :
         /\ ~HasUnrep(s_current)
         /\ OnLattice(x_next)
         /\ TwoStepCriteria(function, x_next, x_current, dimension, accuracy)
              = PyFalse
         /\ list_of_function_value_at_k_point' =
              Append(list_of_function_value_at_k_point, F(x_next))
         /\ x_previous' = x_current
         /\ x_current' = x_next
         /\ s_previous' = s_current
    /\ iteration_counter' = iteration_counter + 1
    /\ UNCHANGED <<twin, inputs, pc, h_current, h_previous, function_value_at_known_min_point,
                   outputs, ctl, fn>>

TS_Next ==
    \/ TS_Done
    \/ TS_EnterLoop
    \/ TS_Converged
    \/ TS_Advance

\* ----------------------- TwoStepMinimization.run_second_modification_minimizer

\* a comparison of a nan inside the three tests raises TypeError, which no
\* method of TwoStepMinimization catches
TwoStepCriteriaError == [type |-> TypeError, origin |-> "StoppingCriteria"]

\* the first step satisfies the three tests
TS2_Done ==
    /\ method = TSSecond /\ pc = "init"
    /\ \E s_0 \in {TwoStep_get_s_0(function, x_0, dimension)} :
       \E alpha_0 \in AlphaChoices(x_0, s_0) :
       \E x_1 \in {get_x_next(x_0, alpha_0, s_0)} :
       \E list \in {<< F(x_0), F(x_1) >>} :
         /\ OnLattice(x_1)
         /\ TwoStepCriteria(function, x_1, x_0, dimension, accuracy) = PyTrue
         /\ list_of_function_value_at_k_point' = list
         /\ x_current' = x_1
         /\ results' = Append(results, TwoStepResultRecord("Second Modification",
                                                           x_1, 0))
         /\ returned' = PyList(list)
    /\ iteration_counter' = 0
    /\ pc' = "returned"
    /\ UNCHANGED <<twin, inputs, x_previous, s_previous, h_current, h_previous,
                   function_value_at_known_min_point, messages, exception, ctl, fn>>

\* the first step is unrolled before the loop: h_current is the recurrence
\* applied to (x_1, x_0) and the identity
TS2_EnterLoop ==
    /\ method = TSSecond /\ pc = "init"
    /\ \E s_0 \in {TwoStep_get_s_0(function, x_0, dimension)} :
       \E alpha_0 \in AlphaChoices(x_0, s_0) :
       \E x_1 \in {get_x_next(x_0, alpha_0, s_0)} :
         /\ OnLattice(x_1)
         /\ TwoStepCriteria(function, x_1, x_0, dimension, accuracy) = PyFalse
         /\ list_of_function_value_at_k_point' = << F(x_0), F(x_1) >>
         /\ x_previous' = x_0
         /\ x_current' = x_1
         /\ s_previous' = s_0
         /\ \E h_next \in {TwoStep_get_h_k(function, x_1, x_0, dimension,
                                           Eye(dimension))} :
              /\ ~MatHasUnrep(h_next)
              /\ h_current' = h_next
    /\ iteration_counter' = 0
    /\ pc' = "loop"
    /\ UNCHANGED <<twin, inputs, h_previous, function_value_at_known_min_point,
                   outputs, ctl, fn>>

TS2_s_current ==
    TwoStep_get_s_k_second_modification(
        function, x_current,
        TwoStep_get_beta_k(function, x_current, x_previous,
                           iteration_counter + 1, dimension),
        s_previous, h_current, dimension)

TS2_CanStep ==
    /\ method = TSSecond /\ pc = "loop"
    /\ iteration_counter < TwoStepPassesExplored

TS2_Converged ==
    /\ TS2_CanStep
    /\ \E s_current \in {TS2_s_current} :
       \E alpha_current \in AlphaChoices(x_current, s_current) :
       \E x_next \in {get_x_next(x_current, alpha_current, s_current)} :
       \E list \in {Append(list_of_function_value_at_k_point, F(x_next))} :
         /\ ~HasUnrep(s_current)
         /\ OnLattice(x_next)
         /\ TwoStepCriteria(function, x_next, x_current, dimension, accuracy)
              = PyTrue
         /\ list_of_function_value_at_k_point' = list
         /\ results' = Append(results,
                              TwoStepResultRecord("Second Modification", x_next,
                                                  iteration_counter + 1))
         /\ returned' = PyList(list)
    /\ iteration_counter' = iteration_counter + 1
    /\ pc' = "returned"
    /\ UNCHANGED <<twin, inputs, x_current, x_previous, s_previous, h_current,
                   h_previous, function_value_at_known_min_point, messages,
                   exception, ctl, fn>>

\* a pass that goes on with the matrix updated on the pair before x_current,
\* the lag of the first modification
TS2_AdvanceWithLaggingCurvature ==
    /\ TS2_CanStep
    /\ \E s_current \in {TS2_s_current} :
       \E alpha_current \in AlphaChoices(x_current, s_current) :
       \E x_next \in {get_x_next(x_current, alpha_current, s_current)} :
         /\ ~HasUnrep(s_current)
         /\ OnLattice(x_next)
         /\ TwoStepCriteria(function, x_next, x_current, dimension, accuracy)
              = PyFalse
         /\ list_of_function_value_at_k_point' =
              Append(list_of_function_value_at_k_point, F(x_next))
         /\ x_previous' = x_current
         /\ x_current' = x_next
         /\ s_previous' = s_current
         /\ \E h_next \in {TwoStep_get_h_k(function, x_current, x_previous,
                                           dimension, h_current)} :
              /\ ~MatHasUnrep(h_next)
              /\ h_current' = h_next
    /\ iteration_counter' = iteration_counter + 1
    /\ UNCHANGED <<twin, inputs, pc, h_previous,
                   function_value_at_known_min_point, outputs, ctl, fn>>

TS2_Advance ==
    /\ TS2_CanStep
    /\ \E s_current \in {TS2_s_current} :
       \E alpha_current \in AlphaChoices(x_current, s_current) :
       \E x_next \in {get_x_next(x_current, alpha_current, s_current)} :
         /\ ~HasUnrep(s_current)
         /\ OnLattice(x_next)
         /\ TwoStepCriteria(function, x_next, x_current, dimension, accuracy)
              = PyFalse
         /\ list_of_function_value_at_k_point' =
              Append(list_of_function_value_at_k_point, F(x_next))
         /\ x_previous' = x_current
         /\ x_current' = x_next
         /\ s_previous' = s_current
         /\ \E h_next \in {TwoStep_get_h_k(function, x_next, x_current,
                                           dimension, h_current)} :
              /\ ~MatHasUnrep(h_next)
              /\ h_current' = h_next
    /\ iteration_counter' = iteration_counter + 1
    /\ UNCHANGED <<twin, inputs, pc, h_previous,
                   function_value_at_known_min_point, outputs, ctl, fn>>

\* the value at x_next is pushed, then the tests raise
TS2_CriteriaRaise ==
    /\ TS2_CanStep
    /\ \E s_current \in {TS2_s_current} :
       \E alpha_current \in AlphaChoices(x_current, s_current) :
       \E x_next \in {get_x_next(x_current, alpha_current, s_current)} :
         /\ ~HasUnrep(s_current)
         /\ OnLattice(x_next)
         /\ TwoStepCriteria(function, x_next, x_current, dimension, accuracy)
              = TypeError
         /\ list_of_function_value_at_k_point' =
              Append(list_of_function_value_at_k_point, F(x_next))
    /\ iteration_counter' = iteration_counter + 1
    /\ exception' = TwoStepCriteriaError
    /\ pc' = "raised"
    /\ UNCHANGED <<twin, inputs, x_current, x_previous, s_previous, h_current,
                   h_previous, function_value_at_known_min_point, messages,
                   results, returned, ctl, fn>>

TS2_Next ==
    \/ TS2_Done
    \/ TS2_EnterLoop
    \/ TS2_Converged
    \/ TS2_Advance
    \/ TS2_CriteriaRaise

\* ------------------------ TwoStepMinimization.run_first_modification_minimizer

TS1_Done ==
    /\ method = TSFirst /\ pc = "init"
    /\ \E s_0 \in {TwoStep_get_s_0(function, x_0, dimension)} :
       \E alpha_0 \in AlphaChoices(x_0, s_0) :
       \E x_1 \in {get_x_next(x_0, alpha_0, s_0)} :
       \E list \in {<< F(x_0), F(x_1) >>} :
         /\ OnLattice(x_1)
         /\ TwoStepCriteria(function, x_1, x_0, dimension, accuracy) = PyTrue
         /\ list_of_function_value_at_k_point' = list
         /\ x_current' = x_1
         /\ results' = Append(results, TwoStepResultRecord("First Modification",
                                                           x_1, 0))
         /\ returned' = PyList(list)
    /\ iteration_counter' = 0
    /\ pc' = "returned"
    /\ UNCHANGED <<twin, inputs, x_previous, s_previous, h_current, h_previous,
                   function_value_at_known_min_point, messages, exception, ctl, fn>>

\* the first step did not satisfy the tests: the step from x_1 follows, with
\* h_0 the identity (x_previous, x_current, s_previous, h_previous hold x_0,
\* x_1, s_0, h_0)
TS1_FirstStep ==
    /\ method = TSFirst /\ pc = "init"
    /\ \E s_0 \in {TwoStep_get_s_0(function, x_0, dimension)} :
       \E alpha_0 \in AlphaChoices(x_0, s_0) :
       \E x_1 \in {get_x_next(x_0, alpha_0, s_0)} :
         /\ OnLattice(x_1)
         /\ TwoStepCriteria(function, x_1, x_0, dimension, accuracy) = PyFalse
         /\ list_of_function_value_at_k_point' = << F(x_0), F(x_1) >>
         /\ x_previous' = x_0
         /\ x_current' = x_1
         /\ s_previous' = s_0
    /\ h_previous' = Eye(dimension)
    /\ iteration_counter' = 0
    /\ pc' = "second"
    /\ UNCHANGED <<twin, inputs, h_current, function_value_at_known_min_point,
                   outputs, ctl, fn>>

TS1_s_current ==
    TwoStep_get_s_k_first_modification(
        function, x_current,
        TwoStep_get_beta_k(function, x_current, x_previous,
                           iteration_counter + 1, dimension),
        s_previous, h_previous, dimension)

\* the step from x_1 (pc = "second") and the passes of the loop
TS1_CanStep ==
    /\ method = TSFirst /\ pc \in {"second", "loop"}
    /\ iteration_counter < TwoStepPassesExplored

TS1_Converged ==
    /\ TS1_CanStep
    /\ \E s_current \in {TS1_s_current} :
       \E alpha_current \in AlphaChoices(x_current, s_current) :
       \E x_next \in {get_x_next(x_current, alpha_current, s_current)} :
       \E list \in {Append(list_of_function_value_at_k_point, F(x_next))} :
         /\ ~HasUnrep(s_current)
         /\ OnLattice(x_next)
         /\ TwoStepCriteria(function, x_next, x_current, dimension, accuracy)
              = PyTrue
         /\ list_of_function_value_at_k_point' = list
         /\ results' = Append(results,
                              TwoStepResultRecord("First Modification", x_next,
                                                  iteration_counter + 1))
         /\ returned' = PyList(list)
    \* h_1 is computed before the tests of the step from x_1
    /\ h_previous' = IF pc = "second"
                     THEN TwoStep_get_h_k(function, x_current, x_previous,
                                          dimension, h_previous)
                     ELSE h_previous
    /\ iteration_counter' = iteration_counter + 1
    /\ pc' = "returned"
    /\ UNCHANGED <<twin, inputs, x_current, x_previous, s_previous, h_current,
                   function_value_at_known_min_point, messages, exception, ctl, fn>>

\* a step that goes on with the matrix updated on the pair (x_next, x_current),
\* the order of the second modification
TS1_AdvanceWithLeadingCurvature ==
    /\ TS1_CanStep
    /\ \E s_current \in {TS1_s_current} :
       \E alpha_current \in AlphaChoices(x_current, s_current) :
       \E x_next \in {get_x_next(x_current, alpha_current, s_current)} :
         /\ ~HasUnrep(s_current)
         /\ OnLattice(x_next)
         /\ TwoStepCriteria(function, x_next, x_current, dimension, accuracy)
              = PyFalse
         /\ list_of_function_value_at_k_point' =
              Append(list_of_function_value_at_k_point, F(x_next))
         /\ x_previous' = x_current
         /\ x_current' = x_next
         /\ s_previous' = s_current
         /\ \E h_next \in {TwoStep_get_h_k(function, x_next, x_current,
                                           dimension, h_previous)} :
              /\ ~MatHasUnrep(h_next)
              /\ h_previous' = h_next
    /\ iteration_counter' = iteration_counter + 1
    /\ pc' = "loop"
    /\ UNCHANGED <<twin, inputs, h_current, function_value_at_known_min_point,
                   outputs, ctl, fn>>

\* x_previous_previous, x_previous = x_previous, x_current: h_previous is the
\* recurrence applied to the two points before x_next
TS1_Advance ==
    /\ TS1_CanStep
    /\ \E s_current \in {TS1_s_current} :
       \E alpha_current \in AlphaChoices(x_current, s_current) :
       \E x_next \in {get_x_next(x_current, alpha_current, s_current)} :
         /\ ~HasUnrep(s_current)
         /\ OnLattice(x_next)
         /\ TwoStepCriteria(function, x_next, x_current, dimension, accuracy)
              = PyFalse
         /\ list_of_function_value_at_k_point' =
              Append(list_of_function_value_at_k_point, F(x_next))
         /\ x_previous' = x_current
         /\ x_current' = x_next
         /\ s_previous' = s_current
    /\ \E h_next \in {TwoStep_get_h_k(function, x_current, x_previous,
                                      dimension, h_previous)} :
         /\ ~MatHasUnrep(h_next)
         /\ h_previous' = h_next
    /\ iteration_counter' = iteration_counter + 1
    /\ pc' = "loop"
    /\ UNCHANGED <<twin, inputs, h_current, function_value_at_known_min_point,
                   outputs, ctl, fn>>

TS1_CriteriaRaise ==
    /\ TS1_CanStep
    /\ \E s_current \in {TS1_s_current} :
       \E alpha_current \in AlphaChoices(x_current, s_current) :
       \E x_next \in {get_x_next(x_current, alpha_current, s_current)} :
         /\ ~HasUnrep(s_current)
         /\ OnLattice(x_next)
         /\ TwoStepCriteria(function, x_next, x_current, dimension, accuracy)
              = TypeError
         /\ list_of_function_value_at_k_point' =
              Append(list_of_function_value_at_k_point, F(x_next))
    /\ h_previous' = IF pc = "second"
                     THEN TwoStep_get_h_k(function, x_current, x_previous,
                                          dimension, h_previous)
                     ELSE h_previous
    /\ iteration_counter' = iteration_counter + 1
    /\ exception' = TwoStepCriteriaError
    /\ pc' = "raised"
    /\ UNCHANGED <<twin, inputs, x_current, x_previous, s_previous, h_current,
                   function_value_at_known_min_point, messages, results,
                   returned, ctl, fn>>

TS1_Next ==
    \/ TS1_Done
    \/ TS1_FirstStep
    \/ TS1_Converged
    \/ TS1_Advance
    \/ TS1_CriteriaRaise

\* a driver run on its own
Next ==
    \/ CG_Next
    \/ CG2_Next
    \/ TS_Next
    \/ TS1_Next
    \/ TS2_Next

Spec == Init /\ [][Next]_vars

\* ============================================== the functions called alone
\* One call of a function of mathematics/modification.py, of the stopping
\* criteria or of TwoStepMinimization: `call` holds the function's name and its
\* arguments, `ret` what the call returned or raised.

\* no run of a driver is in progress
NoRun ==
    /\ function = [a |-> << >>, b |-> << >>]
    /\ x_0 = << >>
    /\ min_point = << >>
    /\ accuracy = Num(1)
    /\ iteration_threshold = 1
    /\ alpha_k_calculating_method = SingleFactor
    /\ method = "none"
    /\ RunIdle

Points(n) == StartPoints(n)

\* numpy.eye(n) and a matrix that is not the identity
Matrices(n) ==
    { Eye(n),
      Array([i \in 1..n |->
               Array([j \in 1..n |-> IF i = j THEN Num(2) ELSE Num(1)])]) }

ObjectivesOf(n) == { g \in Objectives : Len(g.a) = n }

Dimensions == { Len(g.a) : g \in Objectives }

get_h_k_calls(n) ==
    { [fn |-> name, function |-> f, x_next |-> xn, x_current |-> xc,
       h_previous |-> h] :
        name \in {"get_h_k", "_get_h_k"}, f \in ObjectivesOf(n),
        xn \in Points(n), xc \in Points(n), h \in Matrices(n) }

criteria_calls(n) ==
    { [fn |-> name, function |-> f, x_current |-> xc, x_previous |-> xp,
       accuracy |-> acc] :
        name \in {"check_all_criteria", "TwoStepCriteria"}, f \in ObjectivesOf(n),
        xc \in Points(n), xp \in Points(n),
        acc \in { Accuracy(e) : e \in AccuracyExponents } }

\* check_first_stopping_criteria(function, free_symbols, x_current, x_previous,
\* dimension, accuracy) and StoppingCriteria.first_stopping_criteria(x_current,
\* x_previous)
first_test_calls(n) ==
    { [fn |-> name, function |-> f, x_current |-> xc, x_previous |-> xp,
       accuracy |-> acc] :
        name \in {"check_first_stopping_criteria", "first_stopping_criteria"},
        f \in ObjectivesOf(n), xc \in Points(n), xp \in Points(n),
        acc \in { Accuracy(e) : e \in AccuracyExponents } }

\* the drivers' call: alpha_k_calculating_method(function=..., free_symbols=...,
\* x_current=..., s_current=..., dimension=...)
line_search_calls(n) ==
    { [fn |-> Doubling, function |-> f, x_current |-> xc, s_current |-> sc] :
        f \in ObjectivesOf(n), xc \in Points(n), sc \in Points(n) }

\* get_beta_k(function, free_symbols, x_current, x_previous, iteration_number,
\* dimension) and _get_beta_k(x_current, x_previous, iteration_number): either
\* array may be the empty array the second modification starts with
beta_calls(n) ==
    { [fn |-> name, function |-> f, x_current |-> xc, x_previous |-> xp,
       iteration_number |-> k, dimension |-> n] :
        name \in {"get_beta_k", "_get_beta_k"}, f \in ObjectivesOf(n),
        xc \in Points(n) \cup {<< >>}, xp \in Points(n) \cup {<< >>},
        k \in 0..MaxIteration }

\* make_plot: get_styles(len(list_of_results))
get_styles_calls ==
    { [fn |-> "get_styles", methods_number |-> n] : n \in 0..MaxMethods }

Calls ==
    UNION { get_h_k_calls(n) \cup criteria_calls(n) \cup line_search_calls(n)
              \cup beta_calls(n) \cup first_test_calls(n) : n \in Dimensions }
        \cup get_styles_calls

Returned(value) == [status |-> "returned", value |-> value]

Raised(type) == [status |-> "raised", value |-> type]

InitFn ==
    /\ NoRun
    /\ NoController
    /\ call \in Calls
    /\ ret = [status |-> "none"]
    /\ NoTwin

Pending(name) == call.fn = name /\ ret.status = "none"

Call_get_h_k ==
    /\ Pending("get_h_k")
    /\ ret' = Returned(get_h_k(call.function, call.x_next, call.x_current,
                               Len(call.x_current), call.h_previous))
    /\ UNCHANGED <<twin, inputs, pc, locals, outputs, ctl, call>>

Call_TwoStep_get_h_k ==
    /\ Pending("_get_h_k")
    /\ ret' = Returned(TwoStep_get_h_k(call.function, call.x_next, call.x_current,
                                       Len(call.x_current), call.h_previous))
    /\ UNCHANGED <<twin, inputs, pc, locals, outputs, ctl, call>>

Call_check_all_criteria ==
    /\ Pending("check_all_criteria")
    /\ \E result \in {check_all_criteria(call.function, call.x_current,
                                         call.x_previous, Len(call.x_current),
                                         call.accuracy)} :
         ret' = IF result = TypeError THEN Raised(TypeError) ELSE Returned(result)
    /\ UNCHANGED <<twin, inputs, pc, locals, outputs, ctl, call>>

Call_TwoStepCriteria ==
    /\ Pending("TwoStepCriteria")
    /\ \E result \in {TwoStepCriteria(call.function, call.x_current,
                                      call.x_previous, Len(call.x_current),
                                      call.accuracy)} :
         ret' = IF result = TypeError THEN Raised(TypeError) ELSE Returned(result)
    /\ UNCHANGED <<twin, inputs, pc, locals, outputs, ctl, call>>

Call_get_alpha_k_doubling_method ==
    /\ Pending(Doubling)
    /\ get_alpha_k_doubling_method(call.function, call.x_current, call.s_current,
                                   Len(call.x_current)) = TypeError
    /\ ret' = Raised(TypeError)
    /\ UNCHANGED <<twin, inputs, pc, locals, outputs, ctl, call>>

IndexError == "IndexError"

\* get_symbol_value_mapping reads values_array[i] for i in range(dimension): an
\* array shorter than dimension raises IndexError
get_symbol_value_mapping_raises(values_array, n) == Len(values_array) < n

Call_get_beta_k ==
    /\ Pending("get_beta_k")
    /\ ret' = IF /\ call.iteration_number % call.dimension # 0
                 /\ \/ get_symbol_value_mapping_raises(call.x_current, call.dimension)
                    \/ get_symbol_value_mapping_raises(call.x_previous, call.dimension)
              THEN Raised(IndexError)
              ELSE Returned(get_beta_k(call.function, call.x_current,
                                       call.x_previous, call.iteration_number,
                                       call.dimension))
    /\ UNCHANGED <<twin, inputs, pc, locals, outputs, ctl, call>>

Call_TwoStep_get_beta_k ==
    /\ Pending("_get_beta_k")
    /\ ret' = IF /\ call.iteration_number % call.dimension # 0
                 /\ \/ get_symbol_value_mapping_raises(call.x_current, call.dimension)
                    \/ get_symbol_value_mapping_raises(call.x_previous, call.dimension)
              THEN Raised(IndexError)
              ELSE Returned(TwoStep_get_beta_k(call.function, call.x_current,
                                               call.x_previous,
                                               call.iteration_number,
                                               call.dimension))
    /\ UNCHANGED <<twin, inputs, pc, locals, outputs, ctl, call>>

Call_check_first_stopping_criteria ==
    /\ Pending("check_first_stopping_criteria")
    /\ \E result \in {check_first_stopping_criteria(
                        call.function, call.x_current, call.x_previous,
                        Len(call.x_current), call.accuracy)} :
         ret' = IF result = TypeError THEN Raised(TypeError) ELSE Returned(result)
    /\ UNCHANGED <<twin, inputs, pc, locals, outputs, ctl, call>>

Call_first_stopping_criteria ==
    /\ Pending("first_stopping_criteria")
    /\ \E result \in {first_stopping_criteria(
                        call.function, call.x_current, call.x_previous,
                        Len(call.x_current), call.accuracy)} :
         ret' = IF result = TypeError THEN Raised(TypeError) ELSE Returned(result)
    /\ UNCHANGED <<twin, inputs, pc, locals, outputs, ctl, call>>

Call_get_styles ==
    /\ Pending("get_styles")
    /\ ret' = Returned(PyList(get_styles(call.methods_number)))
    /\ UNCHANGED <<twin, inputs, pc, locals, outputs, ctl, call>>

NextFn ==
    \/ Call_get_h_k
    \/ Call_TwoStep_get_h_k
    \/ Call_check_all_criteria
    \/ Call_TwoStepCriteria
    \/ Call_get_alpha_k_doubling_method
    \/ Call_get_beta_k
    \/ Call_TwoStep_get_beta_k
    \/ Call_check_first_stopping_criteria
    \/ Call_first_stopping_criteria
    \/ Call_get_styles

SpecFn == InitFn /\ [][NextFn]_vars

\* ============================================================== Controller

SingleFactorName == "Single-Factor Minimization"

DoublingName == "Doubling Method"

CGName == "Conjugate Gradients"

CG1Name == "Conjugate Gradients 1st Modification"

CG2Name == "Conjugate Gradients 2nd Modification"

CG3Name == "Conjugate Gradients 3rd Modification"

\* names that are keys of neither dictionary
UnknownAlphaName == "Golden Section"

UnknownMethodName == "Gradient Descent"

KeyError == "KeyError"

PyException == "Exception"

\* [k for k, v in d.items() if v]: a dict is a sequence of <<key, value>> pairs
\* in insertion order
RECURSIVE Selected(_)
Selected(items) ==
    IF items = << >> THEN << >>
    ELSE IF Head(items)[2] THEN << Head(items)[1] >> \o Selected(Tail(items))
    ELSE Selected(Tail(items))

\* Controller._get_minimization_method: the class, or KeyError
Controller_get_minimization_method(method_name) ==
    LET methods_dict ==
            [n \in {CGName, CG1Name, CG2Name, CG3Name} |->
               CASE n = CGName -> CG
                 [] n = CG1Name -> "ConjugateGradientsFirstModification"
                 [] n = CG2Name -> CG2
                 [] n = CG3Name -> "ConjugateGradientsThirdModification"]
    IN  IF method_name \in DOMAIN methods_dict THEN methods_dict[method_name]
        ELSE KeyError

\* a selection test that rejects only the empty selection: of several selected
\* line searches the first is taken
AlphaMethodOfFirstSelected(alpha_k_selection) ==
    LET selected_methods == Selected(alpha_k_selection)
    IN  IF Len(selected_methods) = 0 THEN PyException
        ELSE IF selected_methods[1] = SingleFactorName THEN SingleFactor
        ELSE IF selected_methods[1] = DoublingName THEN Doubling
        ELSE KeyError

\* Controller._get_alpha_k_calculating_method over settings["Alpha k Selection"]:
\* the function, or the exception raised
Controller_get_alpha_k_calculating_method(alpha_k_selection) ==
    LET methods_dict ==
            [n \in {SingleFactorName, DoublingName} |->
               IF n = SingleFactorName THEN SingleFactor ELSE Doubling]
        selected_methods == Selected(alpha_k_selection)
    IN  IF Len(selected_methods) # 1 THEN PyException
        ELSE IF selected_methods[1] \in DOMAIN methods_dict
             THEN methods_dict[selected_methods[1]]
        ELSE KeyError

\* the test of the number of selected methods left out
EmptySelectionAccepted(selected_methods) == FALSE

\* if len(selected_methods) == 0: raise
NoMethodSelected(selected_methods) == Len(selected_methods) = 0

Flags(names) ==
    { Array([i \in 1..Len(names) |-> << names[i], flag[i] >>]) :
        flag \in [1..Len(names) -> BOOLEAN] }

AlphaSelections == Flags(<< SingleFactorName, DoublingName, UnknownAlphaName >>)

MethodSelections ==
    Flags(<< CG2Name, UnknownMethodName, CGName >>)
      \cup Flags(<< UnknownMethodName, CGName, CG2Name >>)

\* settings["Function Settings"]: the starting point is the origin or (1, .., 1)
FunctionSettings ==
    { [function |-> f, x_0 |-> IntVec([i \in 1..Len(f.a) |-> c]),
       min_point |-> ZeroPoint(Len(f.a)), accuracy |-> -6,
       iteration_threshold |-> 1] : f \in Objectives, c \in {0, 1} }

InitCtl ==
    /\ NoRun
    /\ NoCall
    /\ NoTwin
    /\ settings \in [alpha : AlphaSelections, methods : MethodSelections,
                     plot : BOOLEAN, function_settings : FunctionSettings]
    /\ ctl_pc = "start"
    /\ ctl_queue = << >>
    /\ instances_created = 0
    /\ run_method_calls = 0

AlphaError == [type |-> PyException, origin |-> "_get_alpha_k_calculating_method"]

AlphaKeyError == [type |-> KeyError, origin |-> "_get_alpha_k_calculating_method"]

NoMethodError == [type |-> PyException, origin |-> "run"]

MethodKeyError == [type |-> KeyError, origin |-> "_get_minimization_method"]

PlotError == [type |-> TypeError, origin |-> "make_plot"]

Ctl_Raise(e) ==
    /\ exception' = e
    /\ ctl_pc' = "raised"
    /\ UNCHANGED <<twin, inputs, pc, locals, messages, results, returned, settings,
                   ctl_queue, instances_created, run_method_calls, fn>>

\* run: the number of selected line searches is not 1
Ctl_AlphaSelectionRaises ==
    /\ ctl_pc = "start"
    /\ Controller_get_alpha_k_calculating_method(settings.alpha) = PyException
    /\ Ctl_Raise(AlphaError)

\* run: the one selected line search is no key of the dictionary
Ctl_AlphaNameRaises ==
    /\ ctl_pc = "start"
    /\ Controller_get_alpha_k_calculating_method(settings.alpha) = KeyError
    /\ Ctl_Raise(AlphaKeyError)

Ctl_alpha_k_method_found ==
    Controller_get_alpha_k_calculating_method(settings.alpha)
        \in {SingleFactor, Doubling}

\* run: no minimisation method is selected
Ctl_NoMethodRaises ==
    /\ ctl_pc = "start"
    /\ Ctl_alpha_k_method_found
    /\ NoMethodSelected(Selected(settings.methods))
    /\ Ctl_Raise(NoMethodError)

\* run: up to the head of the for loop
Ctl_EnterLoop ==
    /\ ctl_pc = "start"
    /\ Ctl_alpha_k_method_found
    /\ ~NoMethodSelected(Selected(settings.methods))
    /\ alpha_k_calculating_method' =
         Controller_get_alpha_k_calculating_method(settings.alpha)
    /\ ctl_queue' = Selected(settings.methods)
    /\ ctl_pc' = "for"
    /\ UNCHANGED <<twin, function, x_0, min_point, accuracy, iteration_threshold,
                   method, pc, locals, outputs, settings, instances_created,
                   run_method_calls, fn>>

\* for selected_method_name in selected_methods: the name is no key
Ctl_MethodNameRaises ==
    /\ ctl_pc = "for" /\ ctl_queue # << >>
    /\ Controller_get_minimization_method(Head(ctl_queue)) = KeyError
    /\ Ctl_Raise(MethodKeyError)

\* the instance shares its starting point with the run before it, which left
\* the point it reached there; the locals of that run are left as they are
Ctl_RunMethodOnSharedState ==
    /\ ctl_pc = "for" /\ ctl_queue # << >>
    /\ Controller_get_minimization_method(Head(ctl_queue)) # KeyError
    /\ method' = Controller_get_minimization_method(Head(ctl_queue))
    /\ function' = settings.function_settings.function
    /\ x_0' = IF x_current = << >> THEN settings.function_settings.x_0
              ELSE x_current
    /\ min_point' = settings.function_settings.min_point
    /\ accuracy' = Accuracy(settings.function_settings.accuracy)
    /\ iteration_threshold' = settings.function_settings.iteration_threshold
    /\ instances_created' = instances_created + 1
    /\ run_method_calls' = run_method_calls + 1
    /\ ctl_queue' = Tail(ctl_queue)
    /\ ctl_pc' = "run_method"
    /\ pc' = "init"
    /\ UNCHANGED <<twin, alpha_k_calculating_method, locals, outputs, settings, fn>>

\* the class is looked up, the instance constructed and run_method called
Ctl_RunMethod ==
    /\ ctl_pc = "for" /\ ctl_queue # << >>
    /\ Controller_get_minimization_method(Head(ctl_queue)) # KeyError
    /\ method' = Controller_get_minimization_method(Head(ctl_queue))
    /\ function' = settings.function_settings.function
    /\ x_0' = settings.function_settings.x_0
    /\ min_point' = settings.function_settings.min_point
    /\ accuracy' = Accuracy(settings.function_settings.accuracy)
    /\ iteration_threshold' = settings.function_settings.iteration_threshold
    /\ instances_created' = instances_created + 1
    /\ run_method_calls' = run_method_calls + 1
    /\ ctl_queue' = Tail(ctl_queue)
    /\ ctl_pc' = "run_method"
    /\ pc' = "init"
    /\ iteration_counter' = 0
    /\ list_of_function_value_at_k_point' = << >>
    /\ x_current' = << >>
    /\ x_previous' = << >>
    /\ s_previous' = << >>
    /\ h_current' = << >>
    /\ h_previous' = h_previous
    /\ function_value_at_known_min_point' = << >>
    /\ returned' = << >>
    /\ UNCHANGED <<twin, alpha_k_calculating_method, messages, results, exception,
                   settings, fn>>

\* run_method returned: its value is dropped and the loop goes on
Ctl_MethodReturned ==
    /\ ctl_pc = "run_method" /\ pc = "returned"
    /\ ctl_pc' = "for"
    /\ UNCHANGED <<twin, inputs, pc, locals, outputs, settings, ctl_queue,
                   instances_created, run_method_calls, fn>>

\* what run_method raised leaves run
Ctl_MethodRaised ==
    /\ ctl_pc = "run_method" /\ pc = "raised"
    /\ ctl_pc' = "raised"
    /\ UNCHANGED <<twin, inputs, pc, locals, outputs, settings, ctl_queue,
                   instances_created, run_method_calls, fn>>

\* make_plot(test1, ..., test5): five arguments for the one parameter
Ctl_PlotRaises ==
    /\ ctl_pc = "for" /\ ctl_queue = << >>
    /\ settings.plot
    /\ Ctl_Raise(PlotError)

Ctl_Return ==
    /\ ctl_pc = "for" /\ ctl_queue = << >>
    /\ ~settings.plot
    /\ ctl_pc' = "returned"
    /\ UNCHANGED <<twin, inputs, pc, locals, outputs, settings, ctl_queue,
                   instances_created, run_method_calls, fn>>

Ctl_Next ==
    \/ Ctl_AlphaSelectionRaises
    \/ Ctl_AlphaNameRaises
    \/ Ctl_NoMethodRaises
    \/ Ctl_EnterLoop
    \/ Ctl_MethodNameRaises
    \/ Ctl_RunMethod
    \/ Ctl_MethodReturned
    \/ Ctl_MethodRaised
    \/ Ctl_PlotRaises
    \/ Ctl_Return

\* Controller.run and, inside it, the runs of the methods it constructs
NextCtl ==
    \/ Ctl_Next
    \/ CG_Next
    \/ CG2_Next

SpecCtl == InitCtl /\ [][NextCtl]_vars

\* ====================================================== two runs side by side
\* ConjugateGradientsSecondModification.run_method run twice on the same
\* function, x_0, accuracy, iteration_threshold and line search, with two
\* different min_point.  A run is a record of its min_point, its locals and its
\* outputs.  minimize_scalar is a function of the expression it is given: two
\* passes that start from the same point with the same direction get the same
\* step.

TwinIdle(target) ==
    [min_point |-> target, pc |-> "init", iteration_counter |-> 0,
     list_of_function_value_at_k_point |-> << >>, x_current |-> << >>,
     x_previous |-> << >>, s_previous |-> << >>, h_current |-> << >>,
     function_value_at_known_min_point |-> << >>, messages |-> << >>,
     results |-> << >>, returned |-> << >>]

\* run_method up to the loop
TwinStart(run) ==
    [run EXCEPT !.function_value_at_known_min_point = F(run.min_point),
                !.iteration_counter = 0,
                !.list_of_function_value_at_k_point = << F(x_0) >>,
                !.x_current = x_0,
                !.x_previous = << >>,
                !.s_previous = << >>,
                !.h_current = Eye(dimension),
                !.pc = "loop"]

\* print_result_info of a run
TwinResultRecord(run, reached_point, iteration_number, list) ==
    [method_name |-> method, min_point |-> reached_point,
     target |-> run.min_point, iteration_number |-> iteration_number,
     reached_min_func_value |-> Last(list), started_func_value |-> list[1],
     known_min_function_value |-> run.function_value_at_known_min_point]

TwinDirection(run) ==
    get_s_k_second_modification(
        function, run.x_current,
        get_beta_k(function, run.x_current, run.x_previous,
                   run.iteration_counter, dimension),
        run.s_previous, run.h_current, dimension, run.iteration_counter)

\* a pass that stops as soon as the pushed value is the value at min_point
TwinPassSteeredByTarget(run, alpha_current) ==
    LET s_current == TwinDirection(run)
        x_next == get_x_next(run.x_current, alpha_current, s_current)
        list == Append(run.list_of_function_value_at_k_point, F(x_next))
    IN  IF F(x_next) = run.function_value_at_known_min_point
        THEN [run EXCEPT
                !.list_of_function_value_at_k_point = list,
                !.iteration_counter = run.iteration_counter + 1,
                !.returned = PyTuple(list, run.function_value_at_known_min_point),
                !.pc = "returned"]
        ELSE [run EXCEPT
                !.list_of_function_value_at_k_point = list,
                !.iteration_counter = run.iteration_counter + 1,
                !.x_previous = run.x_current,
                !.x_current = x_next,
                !.s_previous = s_current,
                !.h_current = get_h_k(function, x_next, run.x_current,
                                      dimension, run.h_current)]

\* one pass of the loop of run_method with the step alpha_current
TwinPass(run, alpha_current) ==
    IF run.iteration_counter > iteration_threshold
    THEN [run EXCEPT
            !.messages = Append(@, "!!!!!!!!! THRESHOLD !!!!!!!!!"),
            !.results =
                Append(@, TwinResultRecord(run, run.x_current,
                                           run.iteration_counter,
                                           run.list_of_function_value_at_k_point)),
            !.returned = PyTuple(run.list_of_function_value_at_k_point,
                                 run.function_value_at_known_min_point),
            !.pc = "returned"]
    ELSE
      LET s_current == TwinDirection(run)
          x_next == get_x_next(run.x_current, alpha_current, s_current)
          list == Append(run.list_of_function_value_at_k_point, F(x_next))
          count == run.iteration_counter + 1
          verdict == check_all_criteria(function, x_next, run.x_current,
                                        dimension, accuracy)
      IN  IF verdict = PyTrue
          THEN [run EXCEPT
                  !.list_of_function_value_at_k_point = list,
                  !.iteration_counter = count,
                  !.results = Append(@, TwinResultRecord(run, x_next, count, list)),
                  !.returned = PyTuple(list, run.function_value_at_known_min_point),
                  !.pc = "returned"]
          ELSE IF verdict = PyFalse
          THEN [run EXCEPT
                  !.list_of_function_value_at_k_point = list,
                  !.iteration_counter = count,
                  !.x_previous = run.x_current,
                  !.x_current = x_next,
                  !.s_previous = s_current,
                  !.h_current = get_h_k(function, x_next, run.x_current,
                                        dimension, run.h_current)]
          ELSE [run EXCEPT
                  !.list_of_function_value_at_k_point = list,
                  !.iteration_counter = count,
                  !.messages = Append(@, "!!!!!!!!! ENTRAPMENT !!!!!!!!!"),
                  !.results = Append(@, TwinResultRecord(run, run.x_current,
                                                         count, list)),
                  !.returned = PyTuple(list, run.function_value_at_known_min_point),
                  !.pc = "returned"]

\* the steps the line search of a run may return in its next pass
TwinAlphaChoices(run) ==
    IF run.pc # "loop" \/ run.iteration_counter > iteration_threshold
    THEN {Num(0)}
    ELSE LET s_current == TwinDirection(run)
         IN  IF HasUnrep(s_current) THEN {}
             ELSE { alpha \in AlphaChoices(run.x_current, s_current) :
                      LET x_next == get_x_next(run.x_current, alpha, s_current)
                      IN  /\ OnLattice(x_next)
                          /\ check_all_criteria(function, x_next, run.x_current,
                                                dimension, accuracy) = PyFalse
                               => ~MatHasUnrep(get_h_k(function, x_next,
                                                       run.x_current, dimension,
                                                       run.h_current)) }

\* the two line searches are given the same expression
SameLineSearchInput(first, second) ==
    /\ first.pc = "loop" /\ second.pc = "loop"
    /\ first.x_current = second.x_current
    /\ TwinDirection(first) = TwinDirection(second)

TargetPoints(n) == { IntVec([i \in 1..n |-> c]) : c \in {-1, 1} }

InitTwin ==
    /\ function \in Objectives
    /\ x_0 \in StartPoints(Len(function.a))
    /\ min_point = ZeroPoint(Len(function.a))
    /\ accuracy \in { Accuracy(e) : e \in AccuracyExponents }
    /\ method = CG2
    \* the smallest budget: two passes and the threshold pass
    /\ iteration_threshold = 1
    /\ alpha_k_calculating_method = SingleFactor
    /\ RunIdle
    /\ NoController
    /\ NoCall
    /\ \E target \in TargetPoints(Len(function.a)) :
         twin = << TwinIdle(min_point), TwinIdle(target) >>

Twin_Start ==
    /\ twin # << >>
    /\ twin[1].pc = "init" /\ twin[2].pc = "init"
    /\ twin' = << TwinStart(twin[1]), TwinStart(twin[2]) >>
    /\ UNCHANGED <<inputs, pc, locals, outputs, ctl, fn>>

\* each run that is in its loop makes one pass
Twin_Pass ==
    /\ twin # << >>
    /\ twin[1].pc = "loop" \/ twin[2].pc = "loop"
    /\ \E first \in TwinAlphaChoices(twin[1]) :
       \E second \in IF SameLineSearchInput(twin[1], twin[2]) THEN {first}
                     ELSE TwinAlphaChoices(twin[2]) :
         twin' = << IF twin[1].pc = "loop" THEN TwinPass(twin[1], first)
                    ELSE twin[1],
                    IF twin[2].pc = "loop" THEN TwinPass(twin[2], second)
                    ELSE twin[2] >>
    /\ UNCHANGED <<inputs, pc, locals, outputs, ctl, fn>>

NextTwin ==
    \/ Twin_Start
    \/ Twin_Pass

SpecTwin == InitTwin /\ [][NextTwin]_vars

\* ========================= the two drivers of the second modification, paired

\* twin[1] is a run of ConjugateGradientsSecondModification.run_method and
\* twin[2] a run of TwoStepMinimization.run_second_modification_minimizer on the
\* same function, x_0 and accuracy; the line search returns the same step to both.

TwoStepSecondDirection(run) ==
    TwoStep_get_s_k_second_modification(
        function, run.x_current,
        TwoStep_get_beta_k(function, run.x_current, run.x_previous,
                           run.iteration_counter + 1, dimension),
        run.s_previous, run.h_current, dimension)

TwoStepRaised(run, list) ==
    [run EXCEPT !.list_of_function_value_at_k_point = list,
                !.messages = Append(@, "TypeError"),
                !.pc = "raised"]

\* run_second_modification_minimizer up to the loop, with the step alpha_0
TwoStepSecondFirstStep(run, alpha_0) ==
    LET s_0 == TwoStep_get_s_0(function, x_0, dimension)
        x_1 == get_x_next(x_0, alpha_0, s_0)
        list == << F(x_0), F(x_1) >>
        verdict == TwoStepCriteria(function, x_1, x_0, dimension, accuracy)
    IN  IF verdict = PyTrue
        THEN [run EXCEPT
                !.list_of_function_value_at_k_point = list,
                !.iteration_counter = 0,
                !.results = Append(@, TwoStepResultRecord("Second Modification",
                                                          x_1, 0)),
                !.returned = PyList(list),
                !.pc = "returned"]
        ELSE IF verdict = PyFalse
        THEN [run EXCEPT
                !.list_of_function_value_at_k_point = list,
                !.iteration_counter = 0,
                !.x_previous = x_0,
                !.x_current = x_1,
                !.s_previous = s_0,
                !.h_current = TwoStep_get_h_k(function, x_1, x_0, dimension,
                                              Eye(dimension)),
                !.pc = "loop"]
        ELSE TwoStepRaised(run, list)

\* a pass whose beta is taken at the counter before its increment
TwoStepSecondPassCountingFromZero(run, alpha_current) ==
    LET count == run.iteration_counter + 1
        s_current ==
            TwoStep_get_s_k_second_modification(
                function, run.x_current,
                TwoStep_get_beta_k(function, run.x_current, run.x_previous,
                                   run.iteration_counter, dimension),
                run.s_previous, run.h_current, dimension)
        x_next == get_x_next(run.x_current, alpha_current, s_current)
        list == Append(run.list_of_function_value_at_k_point, F(x_next))
    IN  [run EXCEPT
           !.list_of_function_value_at_k_point = list,
           !.iteration_counter = count,
           !.x_previous = run.x_current,
           !.x_current = x_next,
           !.s_previous = s_current,
           !.h_current = TwoStep_get_h_k(function, x_next, run.x_current,
                                         dimension, run.h_current)]

\* one pass of the loop of run_second_modification_minimizer
TwoStepSecondPass(run, alpha_current) ==
    LET count == run.iteration_counter + 1
        s_current == TwoStepSecondDirection(run)
        x_next == get_x_next(run.x_current, alpha_current, s_current)
        list == Append(run.list_of_function_value_at_k_point, F(x_next))
        verdict == TwoStepCriteria(function, x_next, run.x_current, dimension,
                                   accuracy)
    IN  IF verdict = PyTrue
        THEN [run EXCEPT
                !.list_of_function_value_at_k_point = list,
                !.iteration_counter = count,
                !.results = Append(@, TwoStepResultRecord("Second Modification",
                                                          x_next, count)),
                !.returned = PyList(list),
                !.pc = "returned"]
        ELSE IF verdict = PyFalse
        THEN [run EXCEPT
                !.list_of_function_value_at_k_point = list,
                !.iteration_counter = count,
                !.x_previous = run.x_current,
                !.x_current = x_next,
                !.s_previous = s_current,
                !.h_current = TwoStep_get_h_k(function, x_next, run.x_current,
                                              dimension, run.h_current)]
        ELSE [TwoStepRaised(run, list) EXCEPT !.iteration_counter = count]

InitPair ==
    /\ function \in Objectives
    /\ x_0 \in StartPoints(Len(function.a))
    /\ min_point = ZeroPoint(Len(function.a))
    /\ accuracy \in { Accuracy(e) : e \in AccuracyExponents }
    /\ method = CG2
    /\ iteration_threshold \in 1..MaxThreshold
    /\ alpha_k_calculating_method = SingleFactor
    /\ RunIdle
    /\ NoController
    /\ NoCall
    /\ twin = << TwinIdle(min_point), TwinIdle(min_point) >>

\* run_method reaches its loop; the minimizer has not taken its first step
Pair_Start ==
    /\ twin # << >>
    /\ twin[1].pc = "init" /\ twin[2].pc = "init"
    /\ twin' = << TwinStart(twin[1]), twin[2] >>
    /\ UNCHANGED <<inputs, pc, locals, outputs, ctl, fn>>

\* run_method has used up its budget: its next pass ends it
Pair_Threshold ==
    /\ twin # << >>
    /\ twin[1].pc = "loop"
    /\ twin[1].iteration_counter > iteration_threshold
    /\ twin' = << TwinPass(twin[1], Num(0)), twin[2] >>
    /\ UNCHANGED <<inputs, pc, locals, outputs, ctl, fn>>

\* both runs step with the step the line search returns
Pair_Step ==
    /\ twin # << >>
    /\ twin[1].pc = "loop"
    /\ twin[1].iteration_counter <= iteration_threshold
    /\ twin[2].pc \in {"init", "loop"}
    /\ \E alpha_current \in TwinAlphaChoices(twin[1]) :
         twin' = << TwinPass(twin[1], alpha_current),
                    IF twin[2].pc = "init"
                    THEN TwoStepSecondFirstStep(twin[2], alpha_current)
                    ELSE TwoStepSecondPass(twin[2], alpha_current) >>
    /\ UNCHANGED <<inputs, pc, locals, outputs, ctl, fn>>

NextPair ==
    \/ Pair_Start
    \/ Pair_Threshold
    \/ Pair_Step

SpecPair == InitPair /\ [][NextPair]_vars

\* ============================= a starting point of another length than the
\* ============================= number of free symbols
\* ABCMinimisationMethod.__init__ and TwoStepMinimization.__init__ take
\* dimension = len(x_0) and free_symbols from the function, and compare the two
\* nowhere.  get_symbol_value_mapping reads symbols_array[i] and values_array[i]
\* for i in range(dimension): with more coordinates than symbols it raises
\* IndexError; with fewer it maps the first symbols only, and what is
\* substituted keeps a free symbol.

\* a sympy expression that holds a free symbol
Symbolic == "expression"

MismatchError == [type |-> IndexError, origin |-> "get_symbol_value_mapping"]

CriteriaError == [type |-> TypeError, origin |-> "check_all_criteria"]

\* the starting points of 1..3 coordinates whose length is not that of the function
MismatchedStartPoints(f) ==
    UNION { StartPoints(n) : n \in (1..3) \ {Len(f.a)} }

InitDim ==
    /\ function \in Objectives
    /\ x_0 \in MismatchedStartPoints(function)
    /\ min_point = ZeroPoint(Len(function.a))
    /\ accuracy \in { Accuracy(e) : e \in AccuracyExponents }
    /\ method \in {CG, CG2, TSBase}
    /\ iteration_threshold = 1
    /\ alpha_k_calculating_method \in
         IF method = TSBase THEN {SingleFactor} ELSE {SingleFactor, Doubling}
    /\ RunIdle
    /\ NoController
    /\ NoCall
    /\ NoTwin

\* more coordinates than symbols: the first substitution of the run raises
Dim_StartRaises ==
    /\ pc = "init"
    /\ Len(x_0) > Len(function.a)
    /\ exception' = MismatchError
    /\ pc' = "raised"
    /\ UNCHANGED <<twin, inputs, locals, messages, results, returned, ctl, fn>>

\* fewer coordinates than symbols: ConjugateGradientsSecondModification.run_method
\* reaches its loop, nothing raised
Dim_CG2_Start ==
    /\ method = CG2 /\ pc = "init"
    /\ Len(x_0) < Len(function.a)
    /\ function_value_at_known_min_point' = Symbolic
    /\ iteration_counter' = 0
    /\ list_of_function_value_at_k_point' = << Symbolic >>
    /\ x_current' = x_0
    /\ x_previous' = << >>
    /\ s_previous' = << >>
    /\ h_current' = Eye(dimension)
    /\ h_previous' = h_previous
    /\ pc' = "loop"
    /\ UNCHANGED <<twin, inputs, outputs, ctl, fn>>

\* the first line search of the run: of ConjugateGradients and of
\* run_base_minimizer ahead of the loop, of the second modification in the
\* first pass of its loop
Dim_AtFirstLineSearch ==
    /\ Len(x_0) < Len(function.a)
    /\ \/ method \in {CG, TSBase} /\ pc = "init"
       \/ method = CG2 /\ pc = "loop"

\* minimize_scalar is given a function whose values hold a free symbol: it
\* raises, as the doubling method does on its arguments
Dim_LineSearchRaises ==
    /\ Dim_AtFirstLineSearch
    /\ exception' = LineSearchError
    /\ pc' = "raised"
    /\ list_of_function_value_at_k_point' = << Symbolic >>
    /\ UNCHANGED <<twin, inputs, iteration_counter, x_current, x_previous,
                   s_previous, h_current, h_previous, function_value_at_known_min_point,
                   messages, results, returned, ctl, fn>>

\* or minimize_scalar returns a step: a value is pushed, and the comparison of
\* an expression that holds a free symbol raises TypeError in the criteria.  The
\* second modification catches it, prints ENTRAPMENT, and float() of the
\* reached value raises in print_result_info.
Dim_CriteriaRaise ==
    /\ Dim_AtFirstLineSearch
    /\ alpha_k_calculating_method = SingleFactor
    /\ list_of_function_value_at_k_point' = << Symbolic, Symbolic >>
    /\ iteration_counter' = IF method = CG2 THEN 1 ELSE 0
    /\ messages' = IF method = CG2
                   THEN Append(messages, "!!!!!!!!! ENTRAPMENT !!!!!!!!!")
                   ELSE messages
    /\ exception' = CriteriaError
    /\ pc' = "raised"
    /\ UNCHANGED <<twin, inputs, x_current, x_previous, s_previous, h_current, h_previous,
                   function_value_at_known_min_point, results, returned, ctl, fn>>

NextDim ==
    \/ Dim_StartRaises
    \/ Dim_CG2_Start
    \/ Dim_LineSearchRaises
    \/ Dim_CriteriaRaise

SpecDim == InitDim /\ [][NextDim]_vars

\* ================================================================== claims

\* ---- the curvature recurrence as specified, on the arguments of `call`

IsCurvatureCall ==
    /\ call.fn \in {"get_h_k", "_get_h_k"}
    /\ ret.status = "returned"

\* bracket = delta_x - H_prev . delta_y
SpecifiedBracket ==
    VecSub(VecSub(call.x_next, call.x_current),
           MatVec(call.h_previous,
                  get_delta_y(call.function, call.x_next, call.x_current,
                              Len(call.x_current))))

\* denominator = bracket . delta_y
SpecifiedDenominator ==
    Dot(SpecifiedBracket,
        get_delta_y(call.function, call.x_next, call.x_current,
                    Len(call.x_current)))

\* C4: a call of get_h_k / _get_h_k whose denominator bracket . delta_y is 0
\* returns exactly the identity matrix.
C4_SingularStepYieldsIdentity ==
    (IsCurvatureCall /\ SpecifiedDenominator = Num(0))
        => ret.value = Eye(Len(call.x_current))

\* C5: for a denominator other than 0, entry (i, j) of the matrix get_h_k returns
\* is H_prev[i][j] + bracket[i] * bracket[j] / denominator.
C5_RegularStepAddsOuterProduct ==
    (IsCurvatureCall /\ SpecifiedDenominator # Num(0))
        => \A i, j \in 1..Len(call.x_current) :
             ret.value[i][j] =
                 RAdd(call.h_previous[i][j],
                      RDiv(RMul(SpecifiedBracket[i], SpecifiedBracket[j]),
                           SpecifiedDenominator))

\* ---- the doubling line search as specified

\* alpha = 1, halved while f(point + alpha * direction) does not improve on
\* f(point); entrapment once MaxHalvings halvings have not helped
RECURSIVE SpecifiedDoubling(_, _, _, _, _)
SpecifiedDoubling(f, point, direction, alpha, halvings) ==
    LET n == Len(point)
        here == get_function_value_at_k_point(f, point, n)
        there == get_function_value_at_k_point(
                     f, get_x_next(point, alpha, direction), n)
    IN  IF RLess(there, here) THEN Returned(alpha)
        ELSE IF halvings = MaxHalvings THEN Raised("Entrapment")
        ELSE SpecifiedDoubling(f, point, direction, RDiv(alpha, Num(2)),
                               halvings + 1)

\* C6: get_alpha_k_doubling_method called with (objective, point, direction)
\* returns the first alpha of 1, 1/2, 1/4, ... at which the objective improves
\* on its value at the point (entrapment after a bounded number of halvings).
C6_DoublingReturnsFirstImprovingStep ==
    (call.fn = Doubling /\ ret.status # "none")
        => LET specified == SpecifiedDoubling(call.function, call.x_current,
                                              call.s_current, Num(1), 0)
           IN  /\ ret.status = specified.status
               /\ ret.value = specified.value

\* ---- the evaluator of the stopping criteria

IsCriteriaCall ==
    /\ call.fn \in {"check_all_criteria", "TwoStepCriteria"}
    /\ ret.status # "none"

\* the three tests of the called evaluator, each evaluated on its own
FirstTest ==
    IF call.fn = "check_all_criteria"
    THEN check_first_stopping_criteria(call.function, call.x_current,
                                       call.x_previous, Len(call.x_current),
                                       call.accuracy)
    ELSE first_stopping_criteria(call.function, call.x_current, call.x_previous,
                                 Len(call.x_current), call.accuracy)

SecondTest ==
    IF call.fn = "check_all_criteria"
    THEN check_second_stopping_criteria(call.x_current, call.x_previous,
                                        call.accuracy)
    ELSE second_stopping_criteria(call.x_current, call.x_previous, call.accuracy)

ThirdTest ==
    IF call.fn = "check_all_criteria"
    THEN check_third_stopping_criteria(call.function, call.x_current,
                                       Len(call.x_current), call.accuracy)
    ELSE third_stopping_criteria(call.function, call.x_current,
                                 Len(call.x_current), call.accuracy)

\* C10: check_all_criteria, and the conjunction TwoStepMinimization forms of its
\* three StoppingCriteria tests, return true exactly when the three tests hold
\* for (x_current, x_previous), and false as soon as one of them is false.
C10_EvaluatorIsConjunctionOfTests ==
    IsCriteriaCall
        => /\ ret.status = "returned"
           /\ ret.value = PyTrue
                <=> (FirstTest = PyTrue /\ SecondTest = PyTrue /\ ThirdTest = PyTrue)
           /\ (FirstTest = PyFalse \/ SecondTest = PyFalse \/ ThirdTest = PyFalse)
                => ret.value = PyFalse

\* the conjunction of TwoStepMinimization has answered false on a pair that
\* passes the first two tests and fails the third
C10_Witness ==
    /\ IsCriteriaCall
    /\ call.fn = "TwoStepCriteria"
    /\ FirstTest = PyTrue /\ SecondTest = PyTrue /\ ThirdTest = PyFalse
    /\ ret = Returned(PyFalse)

\* ---- the runs of the drivers

\* C1: once the iteration count of a run exceeds the iteration budget, the loop
\* of the run stops, and it stops with the threshold outcome.
C1_LoopStopsAtBudgetWithThreshold ==
    [][ (pc = "loop" /\ iteration_counter > iteration_threshold)
          => /\ pc' = "returned"
             /\ messages' = Append(messages, "!!!!!!!!! THRESHOLD !!!!!!!!!") ]_vars

\* the loop iterations of a run that have pushed a value: the trace of the
\* second modification starts with f(x_0), that of ConjugateGradients with
\* f(x_0) and f(x_1)
LoopIterationsExecuted ==
    IF method = CG2 THEN Len(list_of_function_value_at_k_point) - 1
    ELSE Len(list_of_function_value_at_k_point) - 2

\* C2: in a run of ConjugateGradients or of ConjugateGradientsSecondModification
\* the loop iterations that take a line-search step and push a value to the
\* trace never number more than iteration_threshold.
C2_LoopIterationsWithinBudget ==
    method \in {CG, CG2} => LoopIterationsExecuted <= iteration_threshold

\* C3: what the line search raises never leaves run_method: the run catches it
\* and returns.
C3_LineSearchFailureIsCaught ==
    ~(pc = "raised" /\ exception = LineSearchError)

\* ---- Controller.run

SelectedAlphaCount == Len(Selected(settings.alpha))

\* C7: with a number of selected line searches other than 1, Controller.run
\* raises out of _get_alpha_k_calculating_method with no method constructed or
\* run; a method is constructed or run only under the one selected strategy.
C7_ExactlyOneLineSearchSelected ==
    /\ SelectedAlphaCount # 1
         => /\ ctl_pc \in {"start", "raised"}
            /\ ctl_pc = "raised" => exception = AlphaError
            /\ instances_created = 0 /\ run_method_calls = 0
    /\ (instances_created > 0 \/ ctl_pc \in {"for", "run_method", "returned"})
         => /\ SelectedAlphaCount = 1
            /\ alpha_k_calculating_method =
                 (IF Selected(settings.alpha)[1] = SingleFactorName
                  THEN SingleFactor ELSE Doubling)

\* two line searches were selected, with a method selected too: run raised and
\* nothing was constructed
C7_Witness ==
    /\ SelectedAlphaCount = 2
    /\ Selected(settings.methods) # << >>
    /\ ctl_pc = "raised" /\ exception = AlphaError
    /\ instances_created = 0 /\ run_method_calls = 0

C9_NoMethodSelectedRaises ==
    (ctl_pc # "none" /\ Selected(settings.methods) = << >>)
        => /\ ctl_pc \in {"start", "raised"}
           /\ (ctl_pc = "raised" /\ Ctl_alpha_k_method_found)
                => exception = NoMethodError
           /\ instances_created = 0 /\ run_method_calls = 0
           /\ pc = "init" /\ list_of_function_value_at_k_point = << >>

\* one line search and no method were selected: run raised
C9_Witness ==
    /\ Selected(settings.methods) = << >>
    /\ SelectedAlphaCount = 1
    /\ ctl_pc = "raised" /\ exception = NoMethodError
    /\ instances_created = 0

\* ---- the zero step

IsZeroStepCall == IsCriteriaCall /\ call.x_current = call.x_previous

GradientIsZeroAtCurrent ==
    Gradient(call.function, call.x_current, Len(call.x_current))
        = ZeroPoint(Len(call.x_current))

\* C11: for x_current = x_previous the step-size test holds whatever the
\* accuracy; when the gradient at x_current is zero as well, the three tests
\* hold and the evaluator returns true.
C11_ZeroStepPassesTests ==
    IsZeroStepCall
        => /\ SecondTest = PyTrue
           /\ GradientIsZeroAtCurrent
                => /\ FirstTest = PyTrue /\ ThirdTest = PyTrue
                   /\ ret = Returned(PyTrue)

\* check_all_criteria has returned true on a zero step at a stationary point
C11_Witness ==
    /\ IsZeroStepCall
    /\ call.fn = "check_all_criteria"
    /\ GradientIsZeroAtCurrent
    /\ ret = Returned(PyTrue)

\* ---- the reset of beta

IsBetaCall ==
    /\ call.fn \in {"get_beta_k", "_get_beta_k"}
    /\ ret.status # "none"

\* C12: for an iteration_number that is a multiple of the dimension (0 among
\* them) get_beta_k and _get_beta_k return exactly 0, whatever x_current and
\* x_previous hold: neither array is read.
C12_BetaIsZeroOnMultiplesOfDimension ==
    (IsBetaCall /\ call.iteration_number % call.dimension = 0)
        => ret = Returned(Num(0))

\* 0 was returned at iteration_number = dimension = 2, both arrays empty
C12_Witness ==
    /\ IsBetaCall
    /\ call.dimension = 2 /\ call.iteration_number = 2
    /\ call.x_current = << >> /\ call.x_previous = << >>
    /\ ret = Returned(Num(0))

\* ---- the order of the budget test and the criteria

\* the run has returned from a step that satisfied the criteria: nothing but
\* "Done" was printed ahead of the result
ConvergedOutcome ==
    /\ pc = "returned"
    /\ messages = << >> \/ Last(messages) = "Done"

\* C13: the budget is tested before the criteria once f(x_next) is pushed: a run
\* of ConjugateGradients or of ConjugateGradientsSecondModification whose
\* iteration count exceeds the budget does not end with the converged outcome.
C13_BudgetTestedBeforeCriteria ==
    (method \in {CG, CG2} /\ iteration_counter > iteration_threshold)
        => ~ConvergedOutcome

\* ---- the iteration trace

\* the value a step has appended is the objective at the point the step
\* reached: the new current point, the point of the converged result, or a
\* point that holds a nan
AppendedValueIsOfReachedPoint ==
    \/ Last(list_of_function_value_at_k_point') = F(x_current')
    \/ /\ results' # results
       /\ Last(list_of_function_value_at_k_point')
            = F(Last(results').min_point)
    \/ IsNaN(Last(list_of_function_value_at_k_point'))

\* C14: the trace of a run starts with f(x_0), a step appends exactly one
\* entry f(x_next) at its end, and no entry is modified, removed or reordered.
C14_TraceIsAppendOnly ==
    [][ LET old == list_of_function_value_at_k_point
            new == list_of_function_value_at_k_point'
        IN  /\ Len(new) >= Len(old)
            /\ SubSeq(new, 1, Len(old)) = old
            /\ new # << >> => new[1] = F(x_0)
            /\ Len(new) <= Len(old) + (IF old = << >> THEN 2 ELSE 1)
            /\ (Len(new) > Len(old) /\ Len(new) > 1)
                 => AppendedValueIsOfReachedPoint ]_vars

\* a run has appended to its trace in two passes of its loop
C14_Witness ==
    /\ Len(list_of_function_value_at_k_point) >= 3
    /\ method = CG2
    /\ list_of_function_value_at_k_point[1] = F(x_0)
    /\ Last(list_of_function_value_at_k_point) = F(x_current)
    /\ pc = "loop"

\* ---- what run_method returns

\* C15: every run_method call that returns, whichever way the run ended,
\* returns the full iteration trace together with the objective value at the
\* known minimum point.
C15_ReturnsTraceAndKnownValue ==
    (method \in {CG, CG2} /\ pc = "returned")
        => /\ returned.type = "tuple"
           /\ returned.value[1] = list_of_function_value_at_k_point
           /\ returned.value[2] = F(min_point)

\* ---- the result record

\* C16: a run of ConjugateGradients or of ConjugateGradientsSecondModification
\* that has ended (converged at x_1 or in the loop, threshold, entrapment) has
\* emitted one result record through print_result_info, which carries the
\* method name, the target point, the iteration count, the reached value and
\* the target value of the run.
C16_TerminationEmitsResultRecord ==
    (method \in {CG, CG2} /\ pc = "returned")
        => /\ Len(results) = 1
           /\ results[1].method_name = method
           /\ results[1].target = min_point
           /\ results[1].iteration_number = iteration_counter
           /\ results[1].reached_min_func_value
                = Last(list_of_function_value_at_k_point)
           /\ results[1].known_min_function_value = F(min_point)

\* ---- min_point and the search

\* what a run does apart from reporting its target: its position, its count,
\* the points it holds, its trace and what it printed
SearchOf(run) ==
    << run.pc, run.iteration_counter, run.list_of_function_value_at_k_point,
       run.x_current, run.x_previous, run.s_previous, run.h_current,
       run.messages >>

\* the reached point, the iteration count and the reached value of each record
ReachedOf(run) ==
    [i \in 1..Len(run.results) |->
       << run.results[i].min_point, run.results[i].iteration_number,
          run.results[i].reached_min_func_value >>]

\* C17: two runs of ConjugateGradientsSecondModification that differ in
\* min_point alone visit the same points, build the same trace, count the same
\* iterations and end the same way.
C17_MinPointDoesNotSteerTheRun ==
    twin # << >>
        => /\ SearchOf(twin[1]) = SearchOf(twin[2])
           /\ ReachedOf(twin[1]) = ReachedOf(twin[2])
           /\ twin[1].returned # << >>
                => twin[1].returned.value[1] = twin[2].returned.value[1]

\* both runs have converged in their second pass, one with the target at the
\* origin and one with another target, which their records show
C17_Witness ==
    /\ twin # << >>
    /\ twin[1].pc = "returned" /\ twin[2].pc = "returned"
    /\ twin[1].messages = << >>
    /\ twin[1].iteration_counter = 2
    /\ twin[1].min_point # twin[2].min_point
    /\ twin[1].results[1].target # twin[2].results[1].target
    /\ twin[1].results[1].known_min_function_value
         # twin[2].results[1].known_min_function_value

\* ---- the length of the starting point

\* C18: a starting point whose length differs from the number of free symbols
\* of the objective makes the run raise before its iteration loop begins: the
\* run is never in its loop and no pass of the loop is made.
C18_MismatchRaisesBeforeLoop ==
    Len(x_0) # Len(function.a)
        => /\ pc \in {"init", "raised"}
           /\ iteration_counter = 0

\* ---- runs in sequence

\* the objective at the starting point of the settings
SettingsStartValue ==
    get_function_value_at_k_point(settings.function_settings.function,
                                  settings.function_settings.x_0,
                                  Len(settings.function_settings.x_0))

\* a run made by Controller.run works on the inputs of the settings, starts
\* with the locals of a run made alone, and its trace starts at f(x_0)
RunStartsFromTheSettings ==
    ctl_pc = "run_method"
        => /\ function = settings.function_settings.function
           /\ x_0 = settings.function_settings.x_0
           /\ min_point = settings.function_settings.min_point
           /\ accuracy = Accuracy(settings.function_settings.accuracy)
           /\ iteration_threshold = settings.function_settings.iteration_threshold
           /\ pc = "init"
                => /\ iteration_counter = 0
                   /\ list_of_function_value_at_k_point = << >>
                   /\ x_current = << >> /\ x_previous = << >>
                   /\ s_previous = << >> /\ h_current = << >>
                   /\ returned = << >>
           /\ list_of_function_value_at_k_point # << >>
                => list_of_function_value_at_k_point[1] = SettingsStartValue
           /\ (method = CG2 /\ pc = "loop" /\ iteration_counter = 0)
                => /\ x_current = settings.function_settings.x_0
                   /\ h_current = Eye(dimension)

C20_FirstDirectionIsSteepestDescent ==
    /\ (method = CG2 /\ pc = "loop" /\ iteration_counter = 0)
         => /\ x_previous = << >> /\ s_previous = << >>
            /\ h_current = Eye(dimension)
            /\ x_current = x_0
            /\ CG2_beta_current = Num(0)
            /\ CG2_s_current = AntiGradient(function, x_0, dimension)
    /\ (method = CG2 /\ pc = "loop" /\ iteration_counter = 1)
         => /\ s_previous = AntiGradient(function, x_0, dimension)
            /\ x_previous = x_0
    /\ (method = CG2 /\ pc = "raised") => exception = LineSearchError

\* the first pass was made in two dimensions along a direction that is not 0
C20_Witness ==
    /\ method = CG2 /\ pc = "loop" /\ iteration_counter = 1
    /\ dimension = 2
    /\ s_previous = AntiGradient(function, x_0, dimension)
    /\ s_previous # ZeroPoint(2)
    /\ x_current # x_0

\* ------------------------------------------------------------------- C21

\* the step from x_0 to x_1: the code before the loop of ConjugateGradients and
\* of the minimizers of TwoStepMinimization, the pass numbered 0 of
\* ConjugateGradientsSecondModification
FirstStep ==
    \/ method # CG2 /\ pc = "init" /\ pc' \in {"second", "loop", "returned"}
    \/ /\ method = CG2 /\ pc = "loop"
       /\ iteration_counter = 0 /\ iteration_counter' = 1

\* the three tests as the running driver evaluates them
DriverCriteria(point, previous) ==
    IF method \in TwoStepMethods
    THEN TwoStepCriteria(function, point, previous, dimension, accuracy)
    ELSE check_all_criteria(function, point, previous, dimension, accuracy)

\* the point a run that ended names as the minimum: the last result record, and
\* for ConjugateGradients the x_1 of "Done, x = ..."
ReportedPoint(records, current) ==
    IF method = CG THEN current ELSE Last(records).min_point

Entrapped(printed) ==
    \E i \in 1..Len(printed) : printed[i] = "!!!!!!!!! ENTRAPMENT !!!!!!!!!"

ReturnedTrace(value) ==
    IF value.type = "tuple" THEN value.value[1] ELSE value.value

\* C21: when the three tests hold for (x_1, x_0) the run ends with that step: it
\* does not enter the loop, it names x_1 as the minimum, the trace it returns is
\* << f(x_0), f(x_1) >>, and a run that has returned takes no further step.
C21_FirstStepConvergenceEndsTheRun ==
    /\ [][FirstStep =>
            /\ pc' \in {"second", "loop"}
                 => DriverCriteria(x_current', x_0) # PyTrue
            /\ (pc' = "returned" /\ ~Entrapped(messages')) =>
                 \E x_1 \in {ReportedPoint(results', x_current')} :
                   /\ DriverCriteria(x_1, x_0) = PyTrue
                   /\ list_of_function_value_at_k_point' = << F(x_0), F(x_1) >>
                   /\ ReturnedTrace(returned') = << F(x_0), F(x_1) >>]_vars
    /\ [][pc = "returned" => FALSE]_vars

\* a second-modification run that converged on its first step, which lowered f
C21_Witness ==
    /\ method = CG2 /\ pc = "returned"
    /\ iteration_counter = 1
    /\ ~Entrapped(messages)
    /\ Len(results) = 1
    /\ list_of_function_value_at_k_point
         = << F(x_0), F(Last(results).min_point) >>
    /\ RLess(F(Last(results).min_point), F(x_0))

\* ------------------------------------------------------------------- C22

SecondModification == method \in {CG2, TSSecond}

\* the curvature recurrence of the running driver
CurvatureRecurrence(x_next, point, h) ==
    IF method \in TwoStepMethods
    THEN TwoStep_get_h_k(function, x_next, point, dimension, h)
    ELSE get_h_k(function, x_next, point, dimension, h)

\* the run moves on from some x_k to x_{k+1}, which becomes x_current
AdvancesToNextPoint ==
    /\ pc' = "loop"
    /\ \/ method = CG2 /\ pc = "loop"
       \/ method \in TwoStepMethods
    /\ Len(list_of_function_value_at_k_point')
         = Len(list_of_function_value_at_k_point) + 1

\* the k of the x_k held in x_current at the head of the loop
PointIndex ==
    IF method = CG2 THEN iteration_counter ELSE iteration_counter + 1

C23_CurvatureUpdatedAfterStep ==
    /\ [](method = TSFirst /\ pc = "second"
            => /\ h_previous = Eye(dimension)
               /\ x_previous = x_0
               /\ iteration_counter = 0)
    /\ [][(method = TSFirst /\ pc \in {"second", "loop"} /\ pc' = "loop") =>
            /\ x_previous' = x_current
            /\ s_previous'
                 = VecAdd(AntiGradient(function, x_current, dimension),
                          VecScale(MatVec(h_previous, s_previous),
                                   IF (iteration_counter + 1) % dimension = 0
                                   THEN Num(0)
                                   ELSE RDiv(get_norm_of_vector_squared(
                                               Gradient(function, x_current,
                                                        dimension)),
                                             get_norm_of_vector_squared(
                                               Gradient(function, x_previous,
                                                        dimension)))))
            /\ h_previous'
                 = TwoStep_get_h_k(function, x_current, x_previous, dimension,
                                   h_previous)]_vars

\* a run of run_first_modification_minimizer that stands at x_3: its matrix is
\* off the identity and is not what the recurrence gives on (x_3, x_2)
C23_Witness ==
    /\ method = TSFirst /\ pc = "loop"
    /\ iteration_counter = 2
    /\ ~MatHasNaN(h_previous)
    /\ h_previous # Eye(dimension)
    /\ x_current # x_previous
    /\ \A h \in {Eye(dimension), h_previous} :
         h_previous # TwoStep_get_h_k(function, x_current, x_previous,
                                      dimension, h)

\* ------------------------------------------------------------------- C24

IsFirstTestCall ==
    /\ call.fn \in {"check_first_stopping_criteria", "first_stopping_criteria"}
    /\ ret.status # "none"

PreviousValue ==
    get_function_value_at_k_point(call.function, call.x_previous,
                                  Len(call.x_previous))

CurrentValue ==
    get_function_value_at_k_point(call.function, call.x_current,
                                  Len(call.x_current))

\* f(x_prev) - f(x_curr) and accuracy * (1 + |f(x_curr)|), both multiplied by
\* the three denominators so that they are compared as integers
ScaledDecrease ==
    LET diff == RSub(PreviousValue, CurrentValue)
        one_plus == RAdd(Num(1), RAbs(CurrentValue))
    IN  diff[1] * call.accuracy[2] * one_plus[2]

ScaledDecreaseBound ==
    LET diff == RSub(PreviousValue, CurrentValue)
        one_plus == RAdd(Num(1), RAbs(CurrentValue))
    IN  call.accuracy[1] * one_plus[1] * diff[2]

\* C24: check_first_stopping_criteria and first_stopping_criteria return true
\* exactly when f(x_prev) - f(x_curr) is strictly less than
\* accuracy * (1 + |f(x_curr)|), and false when the two are equal.
C24_DecreaseTestIsStrict ==
    IsFirstTestCall
        => /\ ret.status = "returned"
           /\ ret.value = PyTrue <=> ScaledDecrease < ScaledDecreaseBound
           /\ ScaledDecrease >= ScaledDecreaseBound => ret.value = PyFalse

\* check_first_stopping_criteria has answered false on a decrease that equals
\* the bound
C24_Witness ==
    /\ IsFirstTestCall
    /\ call.fn = "check_first_stopping_criteria"
    /\ ScaledDecrease = ScaledDecreaseBound
    /\ ret = Returned(PyFalse)

\* ------------------------------------------------------------------- C25

\* run_method has neither hit its budget nor been entrapped
WithinBudgetAndFree == twin[1].messages = << >>

\* C25: as long as run_method has not hit its budget and is not entrapped, the
\* two drivers of the second modification stand at the same point with the
\* same previous point, previous direction and matrix, are about to use the
\* same beta and the same direction, have built the same trace, end together,
\* name the same point and return the same trace.
C25_SecondModificationDriversAgree ==
    (twin # << >> /\ twin[1].pc # "init" /\ WithinBudgetAndFree)
        => /\ twin[2].pc = "init"
                => /\ twin[1].x_current = x_0
                   /\ TwinDirection(twin[1])
                        = TwoStep_get_s_0(function, x_0, dimension)
           /\ twin[2].pc # "init"
                => /\ twin[1].pc = twin[2].pc
                   /\ twin[1].list_of_function_value_at_k_point
                        = twin[2].list_of_function_value_at_k_point
           /\ (twin[2].pc = "loop" /\ twin[1].pc = "loop")
                => /\ twin[1].iteration_counter = twin[2].iteration_counter + 1
                   /\ twin[1].x_current = twin[2].x_current
                   /\ twin[1].x_previous = twin[2].x_previous
                   /\ twin[1].s_previous = twin[2].s_previous
                   /\ twin[1].h_current = twin[2].h_current
                   /\ get_beta_k(function, twin[1].x_current, twin[1].x_previous,
                                 twin[1].iteration_counter, dimension)
                        = TwoStep_get_beta_k(function, twin[2].x_current,
                                             twin[2].x_previous,
                                             twin[2].iteration_counter + 1,
                                             dimension)
                   /\ TwinDirection(twin[1]) = TwoStepSecondDirection(twin[2])
           /\ (twin[2].pc = "returned" /\ twin[1].pc = "returned")
                => /\ twin[1].returned.value[1] = twin[2].returned.value
                   /\ Last(twin[1].results).min_point
                        = Last(twin[2].results).min_point

\* both drivers have converged after three steps in two dimensions, on a trace
\* that went down
C25_Witness ==
    /\ twin # << >>
    /\ dimension = 2
    /\ twin[1].pc = "returned" /\ twin[2].pc = "returned"
    /\ WithinBudgetAndFree
    /\ Len(twin[2].returned.value) = 4
    /\ twin[1].returned.value[1] = twin[2].returned.value
    /\ RLess(Last(twin[2].returned.value), twin[2].returned.value[1])

\* ------------------------------------------------------------------- C26

\* C26: in every result record ConjugateGradientsSecondModification.run_method
\* prints, the reached function value is the value of the objective at the
\* reached point of the same record.
C26_ReachedValueIsOfReachedPoint ==
    method = CG2
        => \A i \in 1..Len(results) :
             results[i].reached_min_func_value = F(results[i].min_point)

\* ------------------------------------------------------------------- C27

\* C27: at every head of the loop of ConjugateGradientsSecondModification the
\* trace holds iteration_counter + 1 values, so that the trace it returns holds
\* at most iteration_threshold + 2; in ConjugateGradients the trace holds
\* iteration_counter + 2 values when the loop is entered and after each push
\* inside the loop (CG_LoopIteration: the first pass raises before its push, so
\* that no run of ConjugateGradients reaches such a push).
C27_TraceLengthTracksCounter ==
    /\ [](method = CG2 /\ pc = "loop"
            => Len(list_of_function_value_at_k_point) = iteration_counter + 1)
    /\ [](method = CG2 /\ pc = "returned"
            => /\ Len(returned.value[1]) <= iteration_threshold + 2
               /\ returned.value[1] = list_of_function_value_at_k_point)
    /\ [](method = CG /\ pc = "loop"
            => Len(list_of_function_value_at_k_point) = iteration_counter + 2)
    /\ [][(method = CG /\ pc = "loop"
             /\ Len(list_of_function_value_at_k_point')
                  > Len(list_of_function_value_at_k_point))
            => Len(list_of_function_value_at_k_point') = iteration_counter' + 2]_vars

\* a run of the second modification has used its whole budget and returned a
\* trace of iteration_threshold + 2 values
C27_Witness ==
    /\ method = CG2 /\ pc = "returned"
    /\ iteration_counter = iteration_threshold + 1
    /\ Len(returned.value[1]) = iteration_threshold + 2

\* ------------------------------------------------------------------- C28

\* the run has ended: run_method has returned or has raised
RunEnded == pc \in {"returned", "raised"}

\* converged, threshold or entrapment, as the one record and the banner show
DecidedOutcome ==
    /\ Len(results) = 1
    /\ Len(messages) <= 1
    /\ messages \in { << >>, << "!!!!!!!!! THRESHOLD !!!!!!!!!" >>,
                      << "!!!!!!!!! ENTRAPMENT !!!!!!!!!" >> }

\* C28: a call of ConjugateGradientsSecondModification.run_method prints no
\* result record while it runs, ends with exactly one record, that of the
\* converged, the threshold or the entrapment outcome, and takes no step and
\* appends nothing to its trace once it has ended.
C28_RunEndsInOneOutcome ==
    /\ [](method = CG2 /\ ~RunEnded => results = << >>)
    /\ [](method = CG2 /\ RunEnded => DecidedOutcome)
    /\ [][method = CG2 /\ RunEnded => FALSE]_vars

\* ------------------------------------------------------------------- C29

\* the step did not lower the objective: f(x_curr) >= f(x_prev)
NonDescentStep == RLeq(PreviousValue, CurrentValue)

\* C29: on a step that did not lower the objective check_first_stopping_criteria
\* returns true whatever the accuracy, and check_all_criteria returns true on
\* such a step as soon as the two other tests hold.
C29_NonDescentStepPassesDecreaseTest ==
    /\ (IsFirstTestCall /\ call.fn = "check_first_stopping_criteria"
          /\ NonDescentStep)
         => ret = Returned(PyTrue)
    /\ (IsCriteriaCall /\ call.fn = "check_all_criteria" /\ NonDescentStep
          /\ SecondTest = PyTrue /\ ThirdTest = PyTrue)
         => ret = Returned(PyTrue)

\* check_all_criteria has returned true on a step that raised the objective
C29_Witness ==
    /\ IsCriteriaCall
    /\ call.fn = "check_all_criteria"
    /\ RLess(PreviousValue, CurrentValue)
    /\ ret = Returned(PyTrue)

\* ------------------------------------------------------------------- C30

IsStylesCall == call.fn = "get_styles" /\ ret.status # "none"

\* C30: get_styles(methods_number) returns a list of methods_number line
\* styles, one per method to be plotted, whose i-th element (counted from 0) is
\* the (i mod 4)-th of "-", "--", "-.", ":".
C30_OneStylePerMethod ==
    IsStylesCall
        => /\ ret.status = "returned"
           /\ ret.value.type = "list"
           /\ Len(ret.value.value) = call.methods_number
           /\ \A i \in 0..(Len(ret.value.value) - 1) :
                ret.value.value[i + 1] = << "-", "--", "-.", ":" >>[(i % 4) + 1]
====
